---- MODULE Spec2Model ----
(***************************************************************************)
(* Model of the Google Maps scraper: the deduplicating JSON store          *)
(* (utils/database), the scroll-driven link discovery loop (scraper.ts and *)
(* the copy inside the web server), the navigation retry controller        *)
(* (utils/navigation.ts) and the batch session background task of the web  *)
(* server (POST /api/scrape).                                              *)
(*                                                                         *)
(* Specifications:                                                         *)
(*   SpecStore    - the Database API called directly                       *)
(*   SpecDiscover - one discovery run, CLI or server copy of the loop      *)
(*   SpecNav      - one call of navigateToUrl                              *)
(*   SpecCli      - the per-place loop of GoogleMapsScraper.search         *)
(*   SpecExtract  - extraction of one place from its detail page           *)
(*   SpecParse    - parseCityFromAddress on one address                    *)
(*   SpecCsv      - CSV export of one record                               *)
(*   SpecMain     - one run of the command line program                    *)
(*   Spec         - the web server: one batch session, all inputs          *)
(*   SpecLive     - the same with a short feed and fairly scheduled tasks  *)
(*   SpecMulti    - the web server: two concurrent batch sessions          *)
(*   SpecEndless  - the web server on a feed that never runs out            *)
(***************************************************************************)
EXTENDS Integers, Sequences, FiniteSets, TLC

(***************************************************************************)
(* Generic helpers                                                         *)
(***************************************************************************)
Range(s) == {s[i] : i \in 1..Len(s)}

Min(a, b) == IF a <= b THEN a ELSE b

NoDup(s) == \A i, j \in 1..Len(s) : i # j => s[i] # s[j]

SeqsUpTo(S, n) == UNION {[1..k -> S] : k \in 0..n}

(***************************************************************************)
(* Values                                                                  *)
(***************************************************************************)
\* the sentinel 'N/A' used for a field that could not be resolved
NA == "N/A"

\* "no value" where the other values are strings
None == "none"

\* an optional number (maxResults?: number): <<>> is undefined, <<n>> is n
Undefined == <<>>
Some(n) == <<n>>

(***************************************************************************)
(* Bounds of the model                                                     *)
(***************************************************************************)
\* longest list handed to addPlaces by the direct callers of SpecStore
MaxList == 2

\* most entries the store may hold in SpecStore (records with website 'N/A'
\* are never rejected, so the store is unbounded without it)
MaxPlaces == 2

\* longest list of hrefs one poll of the feed returns
MaxPoll == 2

\* largest maxResults a caller passes
MaxLimit == 2

\* scrollAndCollectLinks: "const stableCountThreshold = 10" (scraper.ts:175,
\* server:247) and "const maxScrollAttempts = 100" (scraper.ts:174, server:248).
\* The model scales both down, keeping stableCountThreshold < maxScrollAttempts,
\* so that runs longer than maxScrollAttempts iterations fit a feed of three
\* links.
stableCountThreshold == 2
maxScrollAttempts == 4

\* most place links one run of the CLI per-place loop goes through
MaxCliLinks == 3

\* "const PARTIAL_SAVE_INTERVAL = 10" (scraper.ts:13), scaled down so that a
\* run of MaxCliLinks links reaches a multiple of it
PARTIAL_SAVE_INTERVAL == 2

\* longest address parseCityFromAddress is applied to
MaxAddrLen == 6

\* longest value of the name and city fields of an exported record
MaxFieldLen == 2

\* most links of a feed that never runs out which the model keeps in the set
\* of a job
FeedWindow == 2

(***************************************************************************)
(* Text: a JavaScript string is modelled by a name (a TLA+ string) in      *)
(* records and by its sequence of characters where the code computes on    *)
(* it; TextTable gives the characters of every text of the model           *)
(***************************************************************************)
\* stands for the separator character the category check rejects
Separator == "*"

TextTable ==
    { <<"", <<>> >>,
      <<" ", <<" ">> >>,
      <<"N/A", <<"N", "/", "A">> >>,
      <<"Cafe", <<"C", "a", "f", "e">> >>,
      <<" Cafe  Bar ", <<" ", "C", "a", "f", "e", " ", " ", "B", "a", "r", " ">> >>,
      <<"Cafe Bar", <<"C", "a", "f", "e", " ", "B", "a", "r">> >>,
      <<"Bar", <<"B", "a", "r">> >>,
      <<"4*", <<"4", "*">> >>,
      <<"Directions", <<"D", "i", "r", "e", "c", "t", "i", "o", "n", "s">> >>,
      <<"Paris", <<"P", "a", "r", "i", "s">> >>,
      <<"NY", <<"N", "Y">> >>,
      <<"12, NY", <<"1", "2", ",", " ", "N", "Y">> >>,
      <<"New York", <<"N", "e", "w", " ", "Y", "o", "r", "k">> >>,
      <<"123 Main St, New York, NY 10001",
        <<"1", "2", "3", " ", "M", "a", "i", "n", " ", "S", "t", ",", " ",
          "N", "e", "w", " ", "Y", "o", "r", "k", ",", " ",
          "N", "Y", " ", "1", "0", "0", "0", "1">> >>,
      \* hrefs of website links, the URLs they unwrap to, and the protocols and
      \* hostnames of these
      <<"http://a.com",
        <<"h", "t", "t", "p", ":", "/", "/", "a", ".", "c", "o", "m">> >>,
      <<"https://b.org",
        <<"h", "t", "t", "p", "s", ":", "/", "/", "b", ".", "o", "r", "g">> >>,
      <<"/url?q=http%3A%2F%2Fa.com&sa=U",
        <<"/", "u", "r", "l", "?", "q", "=", "h", "t", "t", "p", "%", "3",
          "A", "%", "2", "F", "%", "2", "F", "a", ".", "c", "o", "m", "&",
          "s", "a", "=", "U">> >>,
      <<"tel:+15550100",
        <<"t", "e", "l", ":", "+", "1", "5", "5", "5", "0", "1", "0", "0">> >>,
      <<"https://www.google.com/maps",
        <<"h", "t", "t", "p", "s", ":", "/", "/", "w", "w", "w", ".", "g",
          "o", "o", "g", "l", "e", ".", "c", "o", "m", "/", "m", "a", "p", "s">> >>,
      <<"http://",
        <<"h", "t", "t", "p", ":", "/", "/">> >>,
      <<"https://www.google.com/url?q=https%3A%2F%2Fb.org%2F%3Fa%26b&sa=U",
        <<"h", "t", "t", "p", "s", ":", "/", "/", "w", "w", "w", ".", "g",
          "o", "o", "g", "l", "e", ".", "c", "o", "m", "/", "u", "r", "l",
          "?", "q", "=", "h", "t", "t", "p", "s", "%", "3", "A", "%", "2",
          "F", "%", "2", "F", "b", ".", "o", "r", "g", "%", "2", "F", "%",
          "3", "F", "a", "%", "2", "6", "b", "&", "s", "a", "=", "U">> >>,
      <<"https://b.org/?a&b",
        <<"h", "t", "t", "p", "s", ":", "/", "/", "b", ".", "o", "r", "g",
          "/", "?", "a", "&", "b">> >>,
      <<"/url?q=https%3A%2F%2Fmaps.google.com%2F&sa=U",
        <<"/", "u", "r", "l", "?", "q", "=", "h", "t", "t", "p", "s", "%",
          "3", "A", "%", "2", "F", "%", "2", "F", "m", "a", "p", "s", ".",
          "g", "o", "o", "g", "l", "e", ".", "c", "o", "m", "%", "2", "F",
          "&", "s", "a", "=", "U">> >>,
      <<"https://maps.google.com/",
        <<"h", "t", "t", "p", "s", ":", "/", "/", "m", "a", "p", "s", ".",
          "g", "o", "o", "g", "l", "e", ".", "c", "o", "m", "/">> >>,
      <<"https://google.com/",
        <<"h", "t", "t", "p", "s", ":", "/", "/", "g", "o", "o", "g", "l",
          "e", ".", "c", "o", "m", "/">> >>,
      <<"https://Maps.Google.com/x",
        <<"h", "t", "t", "p", "s", ":", "/", "/", "M", "a", "p", "s", ".",
          "G", "o", "o", "g", "l", "e", ".", "c", "o", "m", "/", "x">> >>,
      <<"https://notgoogle.com/",
        <<"h", "t", "t", "p", "s", ":", "/", "/", "n", "o", "t", "g", "o",
          "o", "g", "l", "e", ".", "c", "o", "m", "/">> >>,
      <<"https://google.com.evil.org/",
        <<"h", "t", "t", "p", "s", ":", "/", "/", "g", "o", "o", "g", "l",
          "e", ".", "c", "o", "m", ".", "e", "v", "i", "l", ".", "o", "r",
          "g", "/">> >>,
      <<"https://b.org/?ref=google.com",
        <<"h", "t", "t", "p", "s", ":", "/", "/", "b", ".", "o", "r", "g",
          "/", "?", "r", "e", "f", "=", "g", "o", "o", "g", "l", "e", ".",
          "c", "o", "m">> >>,
      <<"a.com",
        <<"a", ".", "c", "o", "m">> >>,
      <<"b.org",
        <<"b", ".", "o", "r", "g">> >>,
      <<"www.google.com",
        <<"w", "w", "w", ".", "g", "o", "o", "g", "l", "e", ".", "c", "o", "m">> >>,
      <<"maps.google.com",
        <<"m", "a", "p", "s", ".", "g", "o", "o", "g", "l", "e", ".", "c",
          "o", "m">> >>,
      <<"google.com",
        <<"g", "o", "o", "g", "l", "e", ".", "c", "o", "m">> >>,
      <<"notgoogle.com",
        <<"n", "o", "t", "g", "o", "o", "g", "l", "e", ".", "c", "o", "m">> >>,
      <<"google.com.evil.org",
        <<"g", "o", "o", "g", "l", "e", ".", "c", "o", "m", ".", "e", "v",
          "i", "l", ".", "o", "r", "g">> >>,
      <<"http:",
        <<"h", "t", "t", "p", ":">> >>,
      <<"https:",
        <<"h", "t", "t", "p", "s", ":">> >>,
      <<"tel:",
        <<"t", "e", "l", ":">> >> }

Chars(text) == (CHOOSE p \in TextTable : p[1] = text)[2]
Str(chars) == (CHOOSE p \in TextTable : p[2] = chars)[1]

\* \d and \s on the characters of the model
IsDigit(c) == c \in {"0", "1", "2", "3", "4", "5", "6", "7", "8", "9"}
IsSpace(c) == c = " "

RECURSIVE TrimStart(_)
TrimStart(s) == IF s # <<>> /\ IsSpace(Head(s)) THEN TrimStart(Tail(s)) ELSE s

RECURSIVE TrimEnd(_)
TrimEnd(s) ==
    IF s # <<>> /\ IsSpace(s[Len(s)]) THEN TrimEnd(SubSeq(s, 1, Len(s) - 1)) ELSE s

\* String.prototype.trim
Trim(s) == TrimEnd(TrimStart(s))

\* s.replace(/\d+/g, '')
ReplaceDigits(s) == SelectSeq(s, LAMBDA c : ~IsDigit(c))

\* s.replace(/\s+/g, ' ')
RECURSIVE CollapseSpaces(_)
CollapseSpaces(s) ==
    IF s = <<>> THEN <<>>
    ELSE IF IsSpace(Head(s)) THEN <<" ">> \o CollapseSpaces(TrimStart(s))
    ELSE <<Head(s)>> \o CollapseSpaces(Tail(s))

\* s.split(sep) for a one-character separator
RECURSIVE Split(_, _)
Split(s, sep) ==
    IF \E i \in 1..Len(s) : s[i] = sep
    THEN LET i == CHOOSE k \in 1..Len(s) : s[k] = sep /\ \A j \in 1..(k - 1) : s[j] # sep
         IN  <<SubSeq(s, 1, i - 1)>> \o Split(SubSeq(s, i + 1, Len(s)), sep)
    ELSE <<s>>

\* s.includes(sub)
Includes(s, sub) == \E i \in 0..(Len(s) - Len(sub)) : SubSeq(s, i + 1, i + Len(sub)) = sub

\* parseCityFromAddress (parser.ts), on the characters of the address:
\* parts = address.split(',').map(part => part.trim()); with two parts or more
\* cityPart = parts[parts.length - 2] || parts[1] and the result is
\* cityPart.replace(/\d+/g, '').trim(); otherwise the address itself
parseCityFromAddress(address) ==
    LET raw == Split(address, ",")
        parts == [i \in 1..Len(raw) |-> Trim(raw[i])]
    IN  IF Len(parts) >= 2
        THEN LET cityPart == IF parts[Len(parts) - 1] # <<>>
                             THEN parts[Len(parts) - 1] ELSE parts[2]
             IN  Trim(ReplaceDigits(cityPart))
        ELSE address

\* cleanText (parser.ts): '' for null or '', else text.trim().replace(/\s+/g, ' ')
cleanText(text) ==
    IF text = None \/ text = "" THEN ""
    ELSE Str(CollapseSpaces(Trim(Chars(text))))

(***************************************************************************)
(* URLs: the string operations of extractActualUrl, isValidWebsite and     *)
(* isGoogleUrl (parser.ts), on the characters of a string                  *)
(***************************************************************************)
\* s.startsWith(prefix), s.endsWith(suffix)
StartsWith(s, prefix) == Len(s) >= Len(prefix) /\ SubSeq(s, 1, Len(prefix)) = prefix

EndsWith(s, suffix) ==
    Len(s) >= Len(suffix) /\ SubSeq(s, Len(s) - Len(suffix) + 1, Len(s)) = suffix

\* the longest prefix of s that holds no character of stop
RECURSIVE TakeUntil(_, _)
TakeUntil(s, stop) ==
    IF s = <<>> \/ Head(s) \in stop THEN <<>>
    ELSE <<Head(s)>> \o TakeUntil(Tail(s), stop)

\* what is left of s after its leading characters of skip
RECURSIVE DropWhile(_, _)
DropWhile(s, skip) ==
    IF s # <<>> /\ Head(s) \in skip THEN DropWhile(Tail(s), skip) ELSE s

\* the part of s after its last character c (s itself if c does not occur)
RECURSIVE AfterLast(_, _)
AfterLast(s, c) ==
    IF \E i \in 1..Len(s) : s[i] = c
    THEN AfterLast(SubSeq(s, 1 + (CHOOSE i \in 1..Len(s) : s[i] = c /\ \A j \in 1..(i - 1) : s[j] # c),
                          Len(s)), c)
    ELSE s

UrlQ == <<"u", "r", "l", "?", "q", "=">>

\* googleUrl.match(/url\?q=([^&]+)/): the capture group of the leftmost match,
\* which is never empty; <<>> if there is no match
MatchUrlQ(s) ==
    LET starts == {i \in 1..(Len(s) - Len(UrlQ)) :
                      /\ SubSeq(s, i, i + Len(UrlQ) - 1) = UrlQ
                      /\ s[i + Len(UrlQ)] # "&"}
    IN  IF starts = {} THEN <<>>
        ELSE LET i == CHOOSE k \in starts : \A j \in starts : k <= j
             IN  TakeUntil(SubSeq(s, i + Len(UrlQ), Len(s)), {"&"})

\* the percent escapes that occur in the hrefs of the model: the two
\* hexadecimal digits and the character they stand for
Escapes ==
    { <<"3", "A", ":">>, <<"2", "F", "/">>, <<"3", "F", "?">>, <<"3", "D", "=">>,
      <<"2", "6", "&">>, <<"2", "5", "%">> }

\* decodeURIComponent: every escape is replaced by its character.  In the
\* code a '%' that starts no escape makes the function throw, and inside
\* extractWebsite that exception ends in the catch that returns '', as an
\* exception of a page query does (the case xFault = "website"); no string of
\* the model holds such a '%', and the operator leaves it in place
RECURSIVE decodeURIComponent(_)
decodeURIComponent(s) ==
    IF s = <<>> THEN <<>>
    ELSE IF Head(s) = "%" /\ Len(s) >= 3 /\ \E e \in Escapes : e[1] = s[2] /\ e[2] = s[3]
    THEN <<(CHOOSE e \in Escapes : e[1] = s[2] /\ e[2] = s[3])[3]>>
             \o decodeURIComponent(SubSeq(s, 4, Len(s)))
    ELSE <<Head(s)>> \o decodeURIComponent(Tail(s))

Uppers == <<"A", "B", "C", "D", "E", "F", "G", "H", "I", "J", "K", "L", "M",
            "N", "O", "P", "Q", "R", "S", "T", "U", "V", "W", "X", "Y", "Z">>
Lowers == <<"a", "b", "c", "d", "e", "f", "g", "h", "i", "j", "k", "l", "m",
            "n", "o", "p", "q", "r", "s", "t", "u", "v", "w", "x", "y", "z">>

\* s.toLowerCase()
ToLowerCase(s) ==
    [i \in 1..Len(s) |->
        IF \E k \in 1..Len(Uppers) : Uppers[k] = s[i]
        THEN Lowers[CHOOSE k \in 1..Len(Uppers) : Uppers[k] = s[i]]
        ELSE s[i]]

IsAlpha(c) == c \in Range(Uppers) \cup Range(Lowers)

\* new URL(url), with no base.  The string needs a scheme (a letter, then
\* letters, digits, '+', '-', '.') followed by ':'.  For http and https the
\* slashes after the scheme are skipped, the host is what comes before the
\* next '/', '?' or '#', after any userinfo ('@') and before any port (':'),
\* in lower case, and an empty host is an error.  Other schemes (tel:) parse
\* with an empty hostname.  ok = FALSE: the constructor throws
ParseUrl(s) ==
    LET scheme == TakeUntil(s, {":", "/", "?", "#"})
        rest == SubSeq(s, Len(scheme) + 2, Len(s))
        wellFormed ==
            /\ scheme # <<>>
            /\ Len(s) > Len(scheme)
            /\ s[Len(scheme) + 1] = ":"
            /\ IsAlpha(scheme[1])
            /\ \A i \in 1..Len(scheme) :
                   IsAlpha(scheme[i]) \/ IsDigit(scheme[i]) \/ scheme[i] \in {"+", "-", "."}
        protocol == ToLowerCase(scheme) \o <<":">>
        authority == TakeUntil(DropWhile(rest, {"/", "\\"}), {"/", "\\", "?", "#"})
        host == TakeUntil(AfterLast(authority, "@"), {":"})
        failed == [ok |-> FALSE, protocol |-> <<>>, hostname |-> <<>>]
    IN  IF ~wellFormed THEN failed
        ELSE IF protocol \in {<<"h", "t", "t", "p", ":">>, <<"h", "t", "t", "p", "s", ":">>}
        THEN IF host = <<>> THEN failed
             ELSE [ok |-> TRUE, protocol |-> protocol, hostname |-> ToLowerCase(host)]
        ELSE [ok |-> TRUE, protocol |-> protocol, hostname |-> <<>>]

\* the strings of the model
Texts == {p[1] : p \in TextTable}

\* the results of the operations above on a string with characters c, where
\* u is what new URL makes of it
FactsOf(c, u) ==
    [includesUrlQ |-> Includes(c, UrlQ),
     matches |-> MatchUrlQ(c) # <<>>,
     decoded |-> Str(decodeURIComponent(MatchUrlQ(c))),
     startsWithHttp |-> StartsWith(c, <<"h", "t", "t", "p">>),
     parses |-> u.ok,
     protocol |-> IF u.ok THEN Str(u.protocol) ELSE None,
     hostname |-> Str(u.hostname),
     googleHost |-> \/ u.hostname = Chars("google.com")
                    \/ EndsWith(u.hostname, <<".">> \o Chars("google.com"))]

\* for every string of the model, the results of the operations above
UrlFacts == [t \in Texts |-> FactsOf(Chars(t), ParseUrl(Chars(t)))]

(***************************************************************************)
(* The deduplicating store: utils/database (class Database)                *)
(***************************************************************************)
VARIABLES
    data,       \* this.data : [places, totalScraped] (lastUpdated abstracted away)
    file,       \* content of data/database.json
    lastCall    \* SpecStore: the most recent Database call and its outcome

storeVars == <<data, file>>
callVars == <<lastCall>>


\* PlaceDataWithKeyword as handed to the store (scrapedAt not yet set)
MkPlace(n, w, k) == [name |-> n, city |-> NA, category |-> NA, website |-> w, keyword |-> k]

\* the records the callers of SpecStore draw from: two websites and a record
\* without website
StorePlaces ==
    {MkPlace("Cafe", "http://a.com", "kw"), MkPlace("Bar", "https://b.org", "kw"),
     MkPlace("Cafe", NA, "kw")}

StoreLists == SeqsUpTo(StorePlaces, MaxList)

\* { ...place, scrapedAt: new Date().toISOString() }; the clock is abstracted
\* to the single token "ts"
Stamp(p) == [name |-> p.name, city |-> p.city, category |-> p.category,
             website |-> p.website, keyword |-> p.keyword, scrapedAt |-> "ts"]

EmptyData == [places |-> <<>>, totalScraped |-> 0]

\* the states of the directory and file that a call of save() can meet (one
\* synchronous Database call meets one of them):
\*   ok    - directory present, write succeeds
\*   write - fs.writeFileSync throws (caught by save; the file keeps its old,
\*           now stale, content)
\*   mkdir - directory missing and fs.mkdirSync throws
FsFaults == {"ok", "write", "mkdir"}

\* mutant of Exists: the sentinel test is inverted, so that only records
\* without website count as duplicates
ExistsSentinelOnly(ps, place) ==
    \E i \in 1..Len(ps) : ps[i].website = place.website /\ ps[i].website = NA

\* addPlace: this.data.places.some(p => p.website === place.website && p.website !== 'N/A')
Exists(ps, place) ==
    \E i \in 1..Len(ps) : ps[i].website = place.website /\ ps[i].website # NA

\* save(): ensureDataDir() is called outside the try block, writeFileSync inside
\* it.  Result: the new file content and whether an exception escaped.
Save(d, f, fault) ==
    CASE fault = "mkdir" -> [file |-> f, threw |-> TRUE]
      [] fault = "write" -> [file |-> f, threw |-> FALSE]
      [] OTHER           -> [file |-> d, threw |-> FALSE]

\* an addPlace that puts the new entry in front of the others and rewrites
\* the file when it rejects a duplicate: what addPlace must not be
AddPlaceToFront(st, place, fault) ==
    IF ~Exists(st.data.places, place)
    THEN LET d1 == [places |-> <<Stamp(place)>> \o st.data.places,
                    totalScraped |-> st.data.totalScraped + 1]
             sv == Save(d1, st.file, fault)
         IN  [data |-> d1, file |-> sv.file, ret |-> TRUE, threw |-> sv.threw]
    ELSE LET sv == Save(st.data, st.file, fault)
         IN  [data |-> st.data, file |-> sv.file, ret |-> FALSE, threw |-> sv.threw]

\* addPlace(place) on store state st = [data, file]; ret is the returned
\* boolean, threw tells that save() let an exception escape (after the push
\* and the increment of totalScraped)
AddPlaceTo(st, place, fault) ==
    IF ~Exists(st.data.places, place)
    THEN LET d1 == [places |-> Append(st.data.places, Stamp(place)),
                    totalScraped |-> st.data.totalScraped + 1]
             sv == Save(d1, st.file, fault)
         IN  [data |-> d1, file |-> sv.file, ret |-> TRUE, threw |-> sv.threw]
    ELSE [data |-> st.data, file |-> st.file, ret |-> FALSE, threw |-> FALSE]

\* addPlaces(places): for (const place of places) if (this.addPlace(place)) added++
\* The loop stops at the first addPlace that throws.
RECURSIVE AddPlacesFrom(_, _, _, _)
AddPlacesFrom(st, ps, fault, added) ==
    IF ps = <<>>
    THEN [data |-> st.data, file |-> st.file, ret |-> added, threw |-> FALSE]
    ELSE LET r == AddPlaceTo(st, Head(ps), fault)
         IN  IF r.threw
             THEN [data |-> r.data, file |-> r.file, ret |-> added, threw |-> TRUE]
             ELSE AddPlacesFrom([data |-> r.data, file |-> r.file], Tail(ps), fault,
                                IF r.ret THEN added + 1 ELSE added)

AddPlacesTo(st, ps, fault) == AddPlacesFrom(st, ps, fault, 0)

\* a reset that empties the entries in memory only, keeping the counter and
\* not saving: what reset must not be
ResetInMemory(st, fault) ==
    [data |-> [places |-> <<>>, totalScraped |-> st.data.totalScraped],
     file |-> st.file, ret |-> None, threw |-> FALSE]

\* a reset that empties the entries and keeps the counter of the records ever
\* added: what reset must not be
ResetKeepsCounter(st, fault) ==
    LET d1 == [places |-> <<>>, totalScraped |-> st.data.totalScraped]
        sv == Save(d1, st.file, fault)
    IN  [data |-> d1, file |-> sv.file, ret |-> None, threw |-> sv.threw]

\* reset(): this.data = { places: [], ..., totalScraped: 0 }; this.save()
ResetOf(st, fault) ==
    LET sv == Save(EmptyData, st.file, fault)
    IN  [data |-> EmptyData, file |-> sv.file, ret |-> None, threw |-> sv.threw]

\* mutant of StoreState: every call starts from what the file holds
StoreStateReloaded == [data |-> file, file |-> file]

\* the singleton exported by the module: every caller of the process works on
\* the same in-memory data
StoreState == [data |-> data, file |-> file]

NoCall == [op |-> "none", arg |-> <<>>, ret |-> None, threw |-> FALSE, fs |-> "ok"]

\* fs: the file system state the call met
Call(op, arg, r, f) ==
    [op |-> op, arg |-> arg, ret |-> r.ret, threw |-> r.threw, fs |-> f]

\* the store of a freshly started process with no database file
StoreInit ==
    /\ data = EmptyData
    /\ file = EmptyData

CallInit == lastCall = NoCall

\* database.addPlace(place), meeting file system state f
AddPlace(place, f) ==
    LET r == AddPlaceTo(StoreState, place, f)
    IN  /\ Len(r.data.places) <= MaxPlaces
        /\ data' = r.data
        /\ file' = r.file
        /\ lastCall' = Call("addPlace", <<place>>, r, f)

\* database.addPlaces(places)
AddPlaces(ps, f) ==
    LET r == AddPlacesTo(StoreState, ps, f)
    IN  /\ Len(r.data.places) <= MaxPlaces
        /\ data' = r.data
        /\ file' = r.file
        /\ lastCall' = Call("addPlaces", ps, r, f)

\* database.reset()
Reset(f) ==
    LET r == ResetOf(StoreState, f)
    IN  /\ data' = r.data
        /\ file' = r.file
        /\ lastCall' = Call("reset", <<>>, r, f)


(***************************************************************************)
(* Link discovery: GoogleMapsScraper.scrollAndCollectLinks (scraper.ts) and *)
(* the copy of the loop in the web server's background task                *)
(***************************************************************************)
VARIABLES
    dVariant,       \* which copy of the loop runs: "cli" (scraper.ts) or "server"
    dMax,           \* maxResults: Undefined or Some(n)
    links,          \* const links: Set<string>, in insertion order
    previousCount,  \* cli copy: let previousCount
    scrollAttempts, \* let scrollAttempts
    dpc,            \* "loop", "done" (returned) or "threw"
    out,            \* the returned array (<<>> until dpc = "done")
    iters,          \* history: number of loop iterations (polls of the feed) made
    stableRun,      \* history: number of latest consecutive polls that showed no new link
    stamp,          \* history: for each link, when it was first seen (0 = never)
    stopReason,     \* history: why the loop ended
    marker          \* history: the feed's last child showed the end-of-list text
                    \* during the latest iteration

discVars == <<dVariant, dMax, links, previousCount, scrollAttempts, dpc, out,
              iters, stableRun, stamp, stopReason, marker>>

\* the hrefs a feed can show (all contain '/maps/place/', the filter of $$eval)
Links == {"/maps/place/a", "/maps/place/b", "/maps/place/c"}

\* what one poll (the link selectors tried in order) can return
Polls == SeqsUpTo(Links, MaxPoll)

Limits == {Undefined} \cup {Some(n) : n \in 0..MaxLimit}

\* newLinks.forEach(link => links.add(link)) on an insertion-ordered Set
RECURSIVE SetAddAll(_, _)
SetAddAll(ls, newLinks) ==
    IF newLinks = <<>> THEN ls
    ELSE SetAddAll(IF Head(newLinks) \in Range(ls) THEN ls ELSE Append(ls, Head(newLinks)),
                   Tail(newLinks))

\* while ((maxResults === undefined || links.size < maxResults) && scrollAttempts < maxScrollAttempts)
\* a loop condition that reads the limit by truthiness ("maxResults || Infinity"),
\* so that a limit of 0 counts as no limit: what the loop condition must not be
LoopCondFalsy(maxResults, size, attempts) ==
    /\ IF maxResults = Undefined \/ maxResults = Some(0) THEN TRUE
       ELSE size < maxResults[1]
    /\ attempts < maxScrollAttempts

LoopCond(maxResults, size, attempts) ==
    /\ IF maxResults = Undefined THEN TRUE ELSE size < maxResults[1]
    /\ attempts < maxScrollAttempts

\* mutant of StabilityCheck: scrollAttempts is not reset when the set grows
StabilityNoReset(size, prev, attempts) ==
    IF size = prev
    THEN [attempts |-> attempts + 1, brk |-> attempts + 1 >= stableCountThreshold]
    ELSE [attempts |-> attempts, brk |-> FALSE]

\* if (links.size === previousCount) { scrollAttempts++; if (scrollAttempts >=
\* stableCountThreshold) break; } else { scrollAttempts = 0; ... }
\* prev is previousCount (cli) or prevSize (server); both equal the size of the
\* set before this poll's links were added
StabilityCheck(size, prev, attempts) ==
    IF size = prev
    THEN [attempts |-> attempts + 1, brk |-> attempts + 1 >= stableCountThreshold]
    ELSE [attempts |-> 0, brk |-> FALSE]

\* mutant of Slice: the collected links are returned whole
SliceNone(ls, maxResults) == ls

\* maxResults !== undefined ? collectedLinks.slice(0, maxResults) : collectedLinks
Slice(ls, maxResults) ==
    IF maxResults # Undefined THEN SubSeq(ls, 1, Min(maxResults[1], Len(ls))) ELSE ls

\* position of the first occurrence of l in s
FirstIndex(s, l) == CHOOSE i \in 1..Len(s) : s[i] = l /\ \A j \in 1..(i - 1) : s[j] # l

\* history: links that this poll shows for the first time get the stamp
\* <<poll number, position in the poll>>, encoded as one number
StampAfter(newLinks, n) ==
    [l \in Links |->
        IF stamp[l] = 0 /\ l \in Range(newLinks)
        THEN n * (MaxPoll + 2) + FirstIndex(newLinks, l)
        ELSE stamp[l]]

DiscoverInit ==
    /\ dVariant \in {"cli", "server"}
    /\ dMax \in Limits
    /\ links = <<>>
    /\ previousCount = 0
    /\ scrollAttempts = 0
    /\ dpc = "loop"
    /\ out = <<>>
    /\ iters = 0
    /\ stableRun = 0
    /\ stamp = [l \in Links |-> 0]
    /\ stopReason = None
    /\ marker = FALSE

\* discovery idle (the other specifications)
DiscoverIdle ==
    /\ dVariant = "cli"
    /\ dMax = Undefined
    /\ links = <<>>
    /\ previousCount = 0
    /\ scrollAttempts = 0
    /\ dpc = "done"
    /\ out = <<>>
    /\ iters = 0
    /\ stableRun = 0
    /\ stamp = [l \in Links |-> 0]
    /\ stopReason = None
    /\ marker = FALSE

\* one iteration of the while loop: poll the feed (newLinks), merge, test
\* stability, scroll (page.evaluate, which may throw: it is outside any try),
\* and, in the cli copy, probe for the end-of-results marker
Poll(newLinks, scrollThrows, endOfResults) ==
    /\ dpc = "loop"
    /\ LoopCond(dMax, Len(links), scrollAttempts)
    /\ LET merged == SetAddAll(links, newLinks)
           prev == IF dVariant = "cli" THEN previousCount ELSE Len(links)
           st == StabilityCheck(Len(merged), prev, scrollAttempts)
           ended == ~st.brk /\ ~scrollThrows /\ dVariant = "cli" /\ endOfResults
       IN  /\ links' = merged
           /\ scrollAttempts' = st.attempts
           /\ previousCount' = IF dVariant = "cli" /\ Len(merged) # prev
                               THEN Len(merged) ELSE previousCount
           /\ iters' = iters + 1
           /\ stableRun' = IF Range(newLinks) \subseteq Range(links)
                           THEN stableRun + 1 ELSE 0
           /\ stamp' = StampAfter(newLinks, iters + 1)
           /\ marker' = endOfResults
           /\ IF st.brk
              THEN dpc' = "done" /\ stopReason' = "stable" /\ out' = Slice(merged, dMax)
              ELSE IF scrollThrows
              THEN dpc' = "threw" /\ stopReason' = "threw" /\ out' = out
              ELSE IF ended
              THEN dpc' = "done" /\ stopReason' = "end" /\ out' = Slice(merged, dMax)
              ELSE dpc' = "loop" /\ stopReason' = stopReason /\ out' = out
    /\ UNCHANGED <<dVariant, dMax>>

\* the loop condition is false: the function returns
LoopExit ==
    /\ dpc = "loop"
    /\ ~LoopCond(dMax, Len(links), scrollAttempts)
    /\ dpc' = "done"
    /\ stopReason' = IF dMax # Undefined /\ Len(links) >= dMax[1] THEN "limit" ELSE "ceiling"
    /\ out' = Slice(links, dMax)
    /\ UNCHANGED <<dVariant, dMax, links, previousCount, scrollAttempts, iters,
                   stableRun, stamp, marker>>


(***************************************************************************)
(* Navigation controller: navigateToUrl (utils/navigation.ts)              *)
(***************************************************************************)
VARIABLES
    nOpts,      \* options: [custom: waitForSelector given, detail: isPlaceDetailPage]
    nAttempt,   \* the loop variable attempt
    npc,        \* "goto" (about to call page.goto), "backoff", "done"
    nResult,    \* the returned boolean as "true" / "false"; "none" before the return
    nRaised,    \* an exception escaped navigateToUrl
    nGotos,     \* history: outcome of each page.goto call, in order
    nWaits,     \* history: the backoff delays waited (ms), in order
    nReady,     \* history: the readiness selectors waited for in the last attempt
                \* and the one that resolved
    nPresent    \* history: the selectors that resolve on the page loaded by the
                \* last attempt

navVars == <<nOpts, nAttempt, npc, nResult, nRaised, nGotos, nWaits, nReady, nPresent>>

\* const MAX_RETRIES = parseInt(process.env.MAX_RETRIES || '3', 10)
MAX_RETRIES == 3

RECURSIVE Pow2(_)
Pow2(n) == IF n = 0 THEN 1 ELSE 2 * Pow2(n - 1)

\* a backoff whose window does not widen with the attempt: what
\* getExponentialBackoffDelay must not be
FixedBackoffDelay(attempt) == [min |-> 2000, max |-> 4000]

\* getExponentialBackoffDelay(attempt)
getExponentialBackoffDelay(attempt) ==
    LET baseMin == Pow2(attempt) * 1000
    IN  [min |-> baseMin, max |-> baseMin * 2]

\* values of Math.random(), in [0, 1), as ten-thousandths: the least, the
\* middle and the greatest
RandomSamples == {0, 5000, 9999}

\* randomDelay(min, max): the timer is set to
\* Math.floor(Math.random() * (max - min + 1)) + min
randomDelay(min, max) ==
    {(r * (max - min + 1)) \div 10000 + min : r \in RandomSamples}

\* MAPS_SEARCH_SELECTORS / MAPS_PLACE_DETAIL_SELECTORS
MAPS_SEARCH_SELECTORS == <<"[role=feed]", "div.m6QErb", ".m6QErb[aria-label]", "a.hfpxzc">>
MAPS_PLACE_DETAIL_SELECTORS == <<"h1">>

CustomSelector == "custom"

AllSelectors == Range(MAPS_SEARCH_SELECTORS) \cup Range(MAPS_PLACE_DETAIL_SELECTORS)
                    \cup {CustomSelector}

\* the selectors navigateToUrl waits for after a load, in order: the custom
\* one if given, then the list of the page type
ReadinessList(opts) ==
    (IF opts.custom THEN <<CustomSelector>> ELSE <<>>) \o
    (IF opts.detail THEN MAPS_PLACE_DETAIL_SELECTORS ELSE MAPS_SEARCH_SELECTORS)

\* waits that go through the whole list even after a selector has resolved:
\* what the readiness waits must not be
WaitAll(list, present, waited) ==
    [waited |-> waited \o list,
     via |-> IF \E i \in 1..Len(list) : list[i] \in present
             THEN list[CHOOSE i \in 1..Len(list) :
                           /\ list[i] \in present
                           /\ \A j \in 1..(i - 1) : list[j] \notin present]
             ELSE None]

\* the waits made on a page where exactly the selectors of `present` resolve:
\* each selector of the list is waited for in turn, up to the first that resolves
RECURSIVE WaitInOrder(_, _, _)
WaitInOrder(list, present, waited) ==
    IF list = <<>> THEN [waited |-> waited, via |-> None]
    ELSE IF Head(list) \in present
         THEN [waited |-> Append(waited, Head(list)), via |-> Head(list)]
         ELSE WaitInOrder(Tail(list), present, Append(waited, Head(list)))

\* mutant of NavOutcome: the last failure is rethrown (as navigateWithRetry of
\* scraper.ts does)
NavOutcomeRethrow(gotoOk, attempt) ==
    IF gotoOk THEN "true"
    ELSE IF attempt = MAX_RETRIES THEN "throw" ELSE "retry"

\* what one pass of the loop body does with the outcome of page.goto: return
\* true (whether or not a readiness selector resolves), return false after the
\* last attempt, or back off and retry
NavOutcome(gotoOk, attempt) ==
    IF gotoOk THEN "true"
    ELSE IF attempt = MAX_RETRIES THEN "false" ELSE "retry"

NavInit ==
    /\ nOpts \in [custom : BOOLEAN, detail : BOOLEAN]
    /\ nAttempt = 1
    /\ npc = "goto"
    /\ nResult = None
    /\ nRaised = FALSE
    /\ nGotos = <<>>
    /\ nWaits = <<>>
    /\ nReady = [waited |-> <<>>, via |-> None]
    /\ nPresent = {}

NavIdle ==
    /\ nOpts = [custom |-> FALSE, detail |-> FALSE]
    /\ nAttempt = 1
    /\ npc = "done"
    /\ nResult = None
    /\ nRaised = FALSE
    /\ nGotos = <<>>
    /\ nWaits = <<>>
    /\ nReady = [waited |-> <<>>, via |-> None]
    /\ nPresent = {}

\* one pass of the for loop up to its return or its await of the backoff (the
\* "return false" after the loop is never reached: the last failed attempt
\* returns from the catch block):
\* page.goto succeeds or throws; after a load the readiness selectors are
\* waited for on a page where the selectors of `present` resolve
NavAttempt(gotoOk, present) ==
    /\ npc = "goto"
    /\ nAttempt <= MAX_RETRIES
    /\ nGotos' = Append(nGotos, gotoOk)
    /\ nReady' = IF gotoOk THEN WaitInOrder(ReadinessList(nOpts), present, <<>>)
                 ELSE [waited |-> <<>>, via |-> None]
    /\ nPresent' = IF gotoOk THEN present ELSE {}
    /\ LET o == NavOutcome(gotoOk, nAttempt)
       IN  /\ npc' = IF o = "retry" THEN "backoff" ELSE "done"
           /\ nResult' = IF o \in {"true", "false"} THEN o ELSE nResult
           /\ nRaised' = (o = "throw")
    /\ UNCHANGED <<nOpts, nAttempt, nWaits>>

\* await randomDelay(min, max) of the catch block, then attempt++
NavBackoff(d) ==
    /\ npc = "backoff"
    /\ d \in randomDelay(getExponentialBackoffDelay(nAttempt).min,
                         getExponentialBackoffDelay(nAttempt).max)
    /\ nWaits' = Append(nWaits, d)
    /\ nAttempt' = nAttempt + 1
    /\ npc' = "goto"
    /\ UNCHANGED <<nOpts, nResult, nRaised, nGotos, nReady, nPresent>>

\* the delays NavBackoff can draw
Delays == UNION {randomDelay(getExponentialBackoffDelay(k).min,
                             getExponentialBackoffDelay(k).max) : k \in 1..MAX_RETRIES}

(***************************************************************************)
(* State of the per-place loop of GoogleMapsScraper.search and of the      *)
(* partial snapshot file (the actions follow the page model below)         *)
(***************************************************************************)
VARIABLES
    cLinks,         \* placeLinks.length of the run
    cPos,           \* the loop index i, counted from 1
    cResults,       \* results
    partial,        \* content of output/<name>_partial.json (<<>>: no file)
    partialWrites   \* number of times the partial file was written

cliVars == <<cLinks, cPos, cResults, partial, partialWrites>>

(***************************************************************************)
(* Batch sessions: POST /api/scrape and its background task (web server)   *)
(***************************************************************************)
VARIABLES
    registered, \* keys of the sessions map
    sess,       \* sessions: session id -> ScrapingSession
    task,       \* per session: the local state of the background async task
    resp        \* the latest POST /api/scrape: the status code of its answer and
                \* the location and keywords of its body

sessVars == <<registered, sess, task, resp>>

\* the variables of the other components, which the server never touches
\* extraction of one place from its detail page (actions further below)
VARIABLES
    xVariant,   \* "cli" (extractPlaceData) or "server" (the loop body of the server)
    xNav,       \* "navFailed": every page.goto threw; "notReady": the page loaded
                \* and waitForSelector('h1') timed out; "loaded"
    xPage,      \* the detail page
    xFault,     \* the field whose first page query throws, or "none"
    xpc,        \* "start", "done"
    xRet,       \* <<>> before the call and when no record is produced, else <<record>>
    xTried      \* history: for each field, how many strategies were evaluated

exVars == <<xVariant, xNav, xPage, xFault, xpc, xRet, xTried>>

\* one application of parseCityFromAddress (action further below)
VARIABLES
    aAddress,   \* the argument, as characters
    aCity,      \* the result, as characters
    apc         \* "start", "done"

parseVars == <<aAddress, aCity, apc>>

\* one CSV export of one record (action further below)
VARIABLES
    csvVariant, \* "cli" (exportToCSV) or "server" (GET /api/download/:sessionId/csv)
    csvItem,    \* the record, each field as characters
    csvCells,   \* history: what headers.map(...) returned for the record
    csvOut,     \* the text written to the file or sent in the response
    csvpc       \* "start", "done"

csvVars == <<csvVariant, csvItem, csvCells, csvOut, csvpc>>

\* one run of the command line program (actions further below)
VARIABLES
    mpc,        \* position of main / search: "launch", "goto", "backoff", "feed",
                \* "collect", "items", "export", "caught", "finally", "done", "exited"
    mBrowser,   \* main's variable browser: "none" (unassigned), "open", "closed"
    mAttempt,   \* navigateWithRetry: the loop variable attempt
    mSearch,    \* the call of scraper.search: "none", "running", "returned", "raised"
    mReturned,  \* the array search returned
    mGotos,     \* history: outcome of each page.goto of the listing page, in order
    mWaits,     \* history: the delays awaited between the attempts (ms)
    mExit       \* the exit code given to process.exit, "none" if it was not called

mainVars == <<mpc, mBrowser, mAttempt, mSearch, mReturned, mGotos, mWaits, mExit>>

notServerVars == <<callVars, discVars, navVars, cliVars, exVars, parseVars, csvVars, mainVars>>

\* session ids (generateSessionId draws a fresh random id)
Sessions == {"s1", "s2"}

\* what the detail page of a place shows: the text of its h1 (None: no text)
\* and the href of a[data-item-id="authority"] (None: no element or no href)
Hrefs ==
    {"http://a.com", "https://b.org", "/url?q=http%3A%2F%2Fa.com&sa=U", "tel:+15550100",
     "https://www.google.com/maps", "http://"}

\* href.includes('url?q=')
IncludesUrlQ(href) == UrlFacts[href].includesUrlQ

\* href.match(/url\?q=([^&]+)/) is not null
MatchesUrlQ(href) == UrlFacts[href].matches

\* decodeURIComponent(href.match(/url\?q=([^&]+)/)[1])
DecodedInner(href) == UrlFacts[href].decoded

\* s.startsWith('http')
StartsWithHttp(str) == UrlFacts[str].startsWithHttp

\* new URL(url) does not throw ("http://" has no host; a relative reference
\* has no scheme)
ParsesAsUrl(url) == UrlFacts[url].parses

\* new URL(url).protocol
Protocol(url) == UrlFacts[url].protocol

\* new URL(url).hostname.toLowerCase()
Hostname(url) == UrlFacts[url].hostname

\* isValidWebsite (parser.ts): parses as a URL with protocol http: or https:
isValidWebsite(url) ==
    IF url = "" THEN FALSE
    ELSE IF ParsesAsUrl(url) THEN Protocol(url) \in {"http:", "https:"}
    ELSE FALSE

\* isGoogleUrl (parser.ts): hostname === 'google.com' ||
\* hostname.endsWith('.google.com'); false if the URL does not parse
isGoogleUrl(url) ==
    IF url = "" THEN FALSE
    ELSE IF ParsesAsUrl(url) THEN UrlFacts[url].googleHost
    ELSE FALSE

\* server: website = 'N/A'; if (href && href.includes('url?q=')) { website =
\* decodeURIComponent(match[1]) } else if (href && href.startsWith('http'))
\* { website = href }
ServerWebsite(href) ==
    IF href = None THEN NA
    ELSE IF IncludesUrlQ(href) THEN (IF MatchesUrlQ(href) THEN DecodedInner(href) ELSE NA)
    ELSE IF StartsWithHttp(href) THEN href
    ELSE NA

\* server: el.textContent?.trim() || 'N/A', and 'N/A' if $eval rejects
ServerName(h1) == IF h1 = None THEN NA ELSE h1

\* if (website && website !== 'N/A' && website.startsWith('http'))
Accepts(website) == website # "" /\ website # NA /\ StartsWithHttp(website)

\* the record the server builds from a detail page (category and city are
\* read from elements the modelled pages do not have, so both stay 'N/A')
ServerRecord(page, keyword) ==
    [name |-> ServerName(page.h1), city |-> NA, category |-> NA,
     website |-> ServerWebsite(page.href), keyword |-> keyword]

Pages(H) == [h1 : {"Cafe"}, href : H]

NoSession ==
    [status |-> "absent", progress |-> 0, total |-> 0, results |-> <<>>, error |-> None,
     ended |-> FALSE, currentKeyword |-> None, keywordIndex |-> 0, totalKeywords |-> 0]

\* the locals of a task that has not started.  visited, lastItem and origins are
\* history: the links the per-place loop has been through, the outcome of its
\* latest pass, and for each element of allResults the <<keyword index,
\* position in placeLinks>> it was extracted from; foundAny: some poll of some
\* job has shown a link; listing, listingGotos: the outcome of the latest
\* listing navigation and the number of page.goto calls it made
NoTask ==
    [pc |-> "absent", keywords |-> <<>>, maxResults |-> Undefined, kwIdx |-> 0,
     allResults |-> <<>>, links |-> <<>>, scrollAttempts |-> 0, placeLinks |-> <<>>,
     i |-> 0, browser |-> "none", closes |-> 0, visited |-> <<>>, lastItem |-> None,
     origins |-> <<>>, foundAny |-> FALSE, listing |-> None, listingGotos |-> 0]

\* a synchronous section of some task is under way: between "status =
\* 'completed'" and the end of database.addPlaces there is no await, so no
\* other callback of the process runs in between
InSync == \E t \in Sessions : task[t].pc = "merge"

\* a field of the JSON body of a request: absent, a string, an array of
\* strings or a number
Absent == [type |-> "undefined", str |-> "", arr |-> <<>>]
StrBody(v) == [type |-> "string", str |-> v, arr |-> <<>>]
ArrBody(a) == [type |-> "array", str |-> "", arr |-> a]
NumBody == [type |-> "number", str |-> "42", arr |-> <<>>]

\* the values of location and of keywords the clients send
BodyLocations == {Absent, StrBody(""), StrBody("NYC"), NumBody}
BodyKeywords(KW) == {Absent, StrBody("k1"), ArrBody(<<>>)} \cup {ArrBody(k) : k \in KW}

\* !v for the values above (42 and every array are truthy)
Falsy(v) == v.type = "undefined" \/ (v.type = "string" /\ v.str = "")

\* a validation of location that tests presence only: what the test of
\* location must not be
LocationFalsy(location) == Falsy(location)

\* !location || typeof location !== 'string'
LocationInvalid(location) == Falsy(location) \/ location.type # "string"

\* !keywords || !Array.isArray(keywords) || keywords.length === 0
KeywordsInvalid(keywords) ==
    Falsy(keywords) \/ keywords.type # "array" \/ Len(keywords.arr) = 0

SessionInit ==
    /\ registered = {}
    /\ sess = [s \in Sessions |-> NoSession]
    /\ task = [s \in Sessions |-> NoTask]
    /\ resp = [code |-> None, location |-> Absent, keywords |-> Absent]

\* one variable sessionId for the whole process, holding the id of the first
\* session: what the constant of the handler's closure is not
sessionIdShared(s) == "s1"

\* const sessionId = generateSessionId(): each request has its own constant,
\* and the task it starts looks its session up with sessions.get(sessionId)
sessionId(s) == s

\* const estimatedPlaces = maxResults ? keywords.length * maxResults : 0
EstimatedPlaces(keywords, maxResults) ==
    IF maxResults # Undefined /\ maxResults # Some(0)
    THEN Len(keywords) * maxResults[1] ELSE 0

\* POST /api/scrape with body {location, keywords, maxResults}: validation,
\* sessions.set(sessionId, {...}) and the start of the background task
PostScrape(s, location, keywords, maxResults) ==
    /\ ~InSync
    /\ s \notin registered
    /\ IF LocationInvalid(location) \/ KeywordsInvalid(keywords)
       THEN /\ resp' = [code |-> "400", location |-> location, keywords |-> keywords]
            /\ UNCHANGED <<registered, sess, task>>
       ELSE /\ resp' = [code |-> "200", location |-> location, keywords |-> keywords]
            /\ registered' = registered \cup {s}
            /\ sess' = [sess EXCEPT ![sessionId(s)] =
                   [status |-> "running", progress |-> 0,
                    total |-> EstimatedPlaces(keywords.arr, maxResults),
                    results |-> <<>>, error |-> None, ended |-> FALSE,
                    currentKeyword |-> keywords.arr[1], keywordIndex |-> 1,
                    totalKeywords |-> Len(keywords.arr)]]
            /\ task' = [task EXCEPT ![s] =
                   [NoTask EXCEPT !.pc = "acquire", !.keywords = keywords.arr,
                                  !.maxResults = maxResults, !.kwIdx = 1]]
    /\ UNCHANGED <<storeVars, notServerVars>>

\* a catch block that leaves the session as it found it: what the catch of
\* the task is not
CaughtUnmarked(sr, msg) == sr

\* the catch block of the background task: session.status = 'error',
\* session.error = the message, session.endTime = new Date()
Caught(sr, msg) == [sr EXCEPT !.status = "error", !.error = msg, !.ended = TRUE]

\* createBrowser / createContext / context.newPage: all three succeed, or
\* createBrowser throws (no browser), or a later call throws (browser open)
Acquire(s, outcome) ==
    /\ ~InSync
    /\ task[s].pc = "acquire"
    /\ CASE outcome = "ok" ->
              /\ task' = [task EXCEPT ![s].pc = "keyword", ![s].browser = "open"]
              /\ UNCHANGED sess
         [] outcome = "launchFailed" ->
              /\ task' = [task EXCEPT ![s].pc = "finally"]
              /\ sess' = [sess EXCEPT ![sessionId(s)] = Caught(@, "launch failed")]
         [] outcome = "contextFailed" ->
              /\ task' = [task EXCEPT ![s].pc = "finally", ![s].browser = "open"]
              /\ sess' = [sess EXCEPT ![sessionId(s)] = Caught(@, "context failed")]
    /\ UNCHANGED <<registered, resp, storeVars, notServerVars>>

\* mutant of ListingFault: the fault of a listing page reaches the task's catch
ListingFaultFatal(outcome) == "fatal"

\* try { await page.goto(searchUrl, ...) } catch (e) { ...; continue } and
\* if (!resultsFound) { ...; continue }
ListingFault(outcome) == "continue"

\* head of the keyword loop up to the wait for the results feed: the session's
\* currentKeyword / keywordIndex are set, the one page.goto fails (continue), or
\* no feed selector resolves (continue), or the feed is found
ListingNav(s, outcome) ==
    /\ ~InSync
    /\ task[s].pc = "keyword"
    /\ task[s].kwIdx <= Len(task[s].keywords)
    /\ LET named == [sess[s] EXCEPT !.currentKeyword = task[s].keywords[task[s].kwIdx],
                                    !.keywordIndex = task[s].kwIdx]
           t == [task[s] EXCEPT !.listing = outcome, !.listingGotos = 1]
       IN  IF outcome \in {"navFailed", "noFeed"}
           THEN IF ListingFault(outcome) = "continue"
                THEN /\ task' = [task EXCEPT ![s] = [t EXCEPT !.kwIdx = @ + 1]]
                     /\ sess' = [sess EXCEPT ![sessionId(s)] = named]
                ELSE /\ task' = [task EXCEPT ![s] = [t EXCEPT !.pc = "finally"]]
                     /\ sess' = [sess EXCEPT ![sessionId(s)] = Caught(named, outcome)]
           ELSE /\ task' = [task EXCEPT ![s] = [t EXCEPT !.pc = "discover", !.links = <<>>,
                                                         !.scrollAttempts = 0]]
                /\ sess' = [sess EXCEPT ![sessionId(s)] = named]
    /\ UNCHANGED <<registered, resp, storeVars, notServerVars>>

\* a total that leaves out the records of the earlier keywords: what the
\* re-estimation is not
TotalOfThisKeyword(t, placeLinks) ==
    Len(placeLinks) + (Len(t.keywords) - t.kwIdx) * Len(placeLinks)

\* remainingKeywords = keywords.length - keywordIdx - 1; estimatedRemaining =
\* maxResults !== undefined ? remainingKeywords * maxResults
\*                          : remainingKeywords * placeLinks.length;
\* total = allResults.length + placeLinks.length + estimatedRemaining
ReestimatedTotal(t, placeLinks) ==
    LET remainingKeywords == Len(t.keywords) - t.kwIdx
        estimatedRemaining ==
            IF t.maxResults # Undefined THEN remainingKeywords * t.maxResults[1]
            ELSE remainingKeywords * Len(placeLinks)
    IN  Len(t.allResults) + Len(placeLinks) + estimatedRemaining

\* end of the link collection: placeLinks, the re-estimated total, and the
\* start of the per-place loop (an empty placeLinks ends the keyword at once)
Collected(s, ls) ==
    LET t == task[s]
        placeLinks == Slice(ls, t.maxResults)
    IN  /\ sess' = [sess EXCEPT ![sessionId(s)].total = ReestimatedTotal(t, placeLinks)]
        /\ task' = [task EXCEPT
               ![s].links = <<>>, ![s].scrollAttempts = 0,
               ![s].foundAny = @ \/ ls # <<>>,
               ![s].placeLinks = placeLinks, ![s].visited = <<>>,
               ![s].i = 1,
               ![s].pc = IF placeLinks = <<>> THEN "keyword" ELSE "items",
               ![s].kwIdx = IF placeLinks = <<>> THEN @ + 1 ELSE @]

\* one iteration of the server's link-collection loop; page.evaluate (the
\* scroll) is outside any try, so its exception reaches the task's catch
DiscoverStep(s, newLinks, scrollThrows) ==
    /\ ~InSync
    /\ task[s].pc = "discover"
    /\ LoopCond(task[s].maxResults, Len(task[s].links), task[s].scrollAttempts)
    /\ LET merged == SetAddAll(task[s].links, newLinks)
           st == StabilityCheck(Len(merged), Len(task[s].links), task[s].scrollAttempts)
       IN  IF st.brk THEN Collected(s, merged)
           ELSE IF scrollThrows
           THEN /\ task' = [task EXCEPT ![s].pc = "finally", ![s].links = merged,
                                        ![s].foundAny = @ \/ merged # <<>>,
                                        ![s].scrollAttempts = st.attempts]
                /\ sess' = [sess EXCEPT ![sessionId(s)] = Caught(@, "scroll failed")]
           ELSE /\ task' = [task EXCEPT ![s].links = merged,
                                        ![s].foundAny = @ \/ merged # <<>>,
                                        ![s].scrollAttempts = st.attempts]
                /\ UNCHANGED sess
    /\ UNCHANGED <<registered, resp, storeVars, notServerVars>>

\* the loop condition of the link collection is false
DiscoverExit(s) ==
    /\ ~InSync
    /\ task[s].pc = "discover"
    /\ ~LoopCond(task[s].maxResults, Len(task[s].links), task[s].scrollAttempts)
    /\ Collected(s, task[s].links)
    /\ UNCHANGED <<registered, resp, storeVars, notServerVars>>

\* one iteration of the server's link-collection loop on a feed that never
\* runs out, once the set holds FeedWindow links: the poll shows `fresh`, a link
\* not shown before, so links.size grows and scrollAttempts is reset.  The code
\* keeps every link; the model keeps the latest FeedWindow of them, and the name
\* of a forgotten link is free to stand for a link never shown before.  With
\* maxResults absent the loop condition and the stability test do not depend
\* on what was forgotten
DiscoverFresh(s, fresh, scrollThrows) ==
    /\ ~InSync
    /\ task[s].pc = "discover"
    /\ task[s].maxResults = Undefined
    /\ LoopCond(task[s].maxResults, Len(task[s].links), task[s].scrollAttempts)
    /\ Len(task[s].links) = FeedWindow
    /\ fresh \notin Range(Tail(task[s].links))
    /\ LET kept == Append(Tail(task[s].links), fresh)
           st == StabilityCheck(Len(task[s].links) + 1, Len(task[s].links),
                                task[s].scrollAttempts)
       IN  IF scrollThrows
           THEN /\ task' = [task EXCEPT ![s].pc = "finally", ![s].links = kept,
                                        ![s].scrollAttempts = st.attempts]
                /\ sess' = [sess EXCEPT ![sessionId(s)] = Caught(@, "scroll failed")]
           ELSE /\ task' = [task EXCEPT ![s].links = kept,
                                        ![s].scrollAttempts = st.attempts]
                /\ UNCHANGED sess
    /\ UNCHANGED <<registered, resp, storeVars, notServerVars>>

\* mutant of ItemFault: the fault of one item reaches the task's catch
ItemFaultFatal(kind) == "fatal"

\* try { ... } catch (err) { logger.error(...) } around the body of the
\* per-place loop: a failed page.goto or waitForSelector('h1') skips the item
ItemFault(kind) == "skip"

\* mutant of SessionAfterAccept: the session is not updated per record
SessionNotUpdated(sr, allResults) == sr

\* mutant of SessionAfterAccept: the results are updated, progress is not
SessionProgressStale(sr, allResults) == [sr EXCEPT !.results = allResults]

\* mutant of SessionAfterAccept: progress is updated, the results are not
SessionResultsStale(sr, allResults) == [sr EXCEPT !.progress = Len(allResults)]

\* updateSession.results = [...allResults]; updateSession.progress = allResults.length
SessionAfterAccept(sr, allResults) ==
    [sr EXCEPT !.results = allResults, !.progress = Len(allResults)]

\* mutant of Push: the record is put in front
PushFront(arr, rec) == <<rec>> \o arr

\* allResults.push({ name, city, category, website, keyword })
Push(arr, rec) == Append(arr, rec)

\* one pass of the per-place loop.  outcome is "navFailed" (page.goto throws),
\* "notReady" (waitForSelector('h1') times out) or "loaded", and then page is
\* what the detail page shows
ProcessItem(s, outcome, page) ==
    /\ ~InSync
    /\ task[s].pc = "items"
    /\ task[s].i <= Len(task[s].placeLinks)
    /\ LET t == task[s]
           last == t.i = Len(t.placeLinks)
           moved == [t EXCEPT !.i = @ + 1,
                              !.visited = Append(@, t.placeLinks[t.i]),
                              !.pc = IF last THEN "keyword" ELSE "items",
                              !.kwIdx = IF last THEN @ + 1 ELSE @]
       IN  IF outcome \in {"navFailed", "notReady"}
           THEN IF ItemFault(outcome) = "skip"
                THEN /\ task' = [task EXCEPT ![s] = [moved EXCEPT !.lastItem = outcome]]
                     /\ UNCHANGED sess
                ELSE /\ task' = [task EXCEPT ![s].pc = "finally", ![s].lastItem = outcome]
                     /\ sess' = [sess EXCEPT ![sessionId(s)] = Caught(@, outcome)]
           ELSE LET rec == ServerRecord(page, t.keywords[t.kwIdx])
                IN  IF Accepts(rec.website)
                    THEN /\ task' = [task EXCEPT ![s] =
                                 [moved EXCEPT !.allResults = Push(@, rec),
                                               !.origins = Append(@, <<t.kwIdx, t.i>>),
                                               !.lastItem = "accepted"]]
                         /\ sess' = [sess EXCEPT ![sessionId(s)] =
                                 SessionAfterAccept(@, Push(t.allResults, rec))]
                    ELSE /\ task' = [task EXCEPT ![s] = [moved EXCEPT !.lastItem = "skipped"]]
                         /\ UNCHANGED sess
    /\ UNCHANGED <<registered, resp, storeVars, notServerVars>>

\* after the keyword loop: finalSession.status = 'completed', results, total,
\* progress, endTime (the call of database.addPlaces follows with no await)
MarkCompleted(s) ==
    /\ ~InSync
    /\ task[s].pc = "keyword"
    /\ task[s].kwIdx > Len(task[s].keywords)
    /\ sess' = [sess EXCEPT ![sessionId(s)].status = "completed",
                            ![s].results = task[s].allResults,
                            ![s].total = Len(task[s].allResults),
                            ![s].progress = Len(task[s].allResults),
                            ![s].ended = TRUE]
    /\ task' = [task EXCEPT ![s].pc = "merge"]
    /\ UNCHANGED <<registered, resp, storeVars, notServerVars>>

\* database.addPlaces(allResults), meeting file system state f; an exception
\* of save() is caught by the task's catch block
MergeStore(s, f) ==
    /\ task[s].pc = "merge"
    /\ LET r == AddPlacesTo(StoreState, task[s].allResults, f)
       IN  /\ data' = r.data
           /\ file' = r.file
           /\ sess' = IF r.threw THEN [sess EXCEPT ![sessionId(s)] = Caught(@, "save failed")]
                      ELSE sess
    /\ task' = [task EXCEPT ![s].pc = "finally"]
    /\ UNCHANGED <<registered, resp, notServerVars>>

\* mutant of HasBrowser: the browser is never taken to be there
HasBrowserNever(browser) == FALSE

\* if (browser): the variable was assigned by createBrowser
HasBrowser(browser) == browser # "none"

\* GET /api/status/:sessionId for a session of the map: the fields of the
\* JSON answer that the model keeps
StatusReport(s) ==
    [status |-> sess[s].status,
     progress |-> sess[s].progress,
     total |-> sess[s].total,
     resultsCount |-> Len(sess[s].results),
     error |-> sess[s].error,
     currentKeyword |-> sess[s].currentKeyword,
     keywordIndex |-> sess[s].keywordIndex]

\* finally { if (browser) await browser.close() }
Finally(s) ==
    /\ ~InSync
    /\ task[s].pc = "finally"
    /\ task' = [task EXCEPT ![s].pc = "done",
                            ![s].browser = IF HasBrowser(@) THEN "closed" ELSE @,
                            ![s].closes = IF HasBrowser(task[s].browser) THEN @ + 1 ELSE @]
    /\ UNCHANGED <<registered, sess, resp, storeVars, notServerVars>>

SessionIdle == SessionInit

\* the steps of the background tasks of sessions S: every await of a task
\* settles one way or the other
TaskSteps(S, POLLS, PG, FS) ==
    \/ \E s \in S, o \in {"ok", "launchFailed", "contextFailed"} : Acquire(s, o)
    \/ \E s \in S, o \in {"navFailed", "noFeed", "feed"} : ListingNav(s, o)
    \/ \E s \in S, nl \in POLLS, thr \in BOOLEAN : DiscoverStep(s, nl, thr)
    \/ \E s \in S : DiscoverExit(s)
    \/ \E s \in S, o \in {"navFailed", "notReady", "loaded"}, pg \in PG : ProcessItem(s, o, pg)
    \/ \E s \in S : MarkCompleted(s)
    \/ \E s \in S, f \in FS : MergeStore(s, f)
    \/ \E s \in S : Finally(s)

\* the server with session ids S, keyword lists KW, maxResults values LIM,
\* feed polls POLLS, detail pages PG and file system states FS
NextServer(S, KW, LIM, POLLS, PG, FS) ==
    \/ \E s \in S, loc \in BodyLocations, kws \in BodyKeywords(KW), m \in LIM :
          PostScrape(s, loc, kws, m)
    \/ TaskSteps(S, POLLS, PG, FS)

(***************************************************************************)
(* The per-place loop of GoogleMapsScraper.search (CLI)                    *)
(***************************************************************************)
\* an unwrapping that hands the href back as it is: what extractActualUrl must
\* not be
extractActualUrlIdentity(googleUrl) == googleUrl

\* extractActualUrl (parser.ts)
extractActualUrl(googleUrl) ==
    IF IncludesUrlQ(googleUrl) /\ MatchesUrlQ(googleUrl) THEN DecodedInner(googleUrl)
    ELSE googleUrl

\* extractWebsite (scraper.ts) on a page whose only website element is
\* a[data-item-id="authority"]
extractWebsite(href) ==
    IF href = None THEN ""
    ELSE LET actualUrl == extractActualUrl(href)
         IN  IF StartsWithHttp(actualUrl) /\ ~isGoogleUrl(actualUrl) THEN actualUrl ELSE ""

\* the record extractPlaceData returns for a loaded page (no category button
\* and no address element on the modelled pages: '' || 'N/A')
CliRecord(page) ==
    LET website == extractWebsite(page.href)
    IN  [name |-> IF page.h1 = None THEN NA ELSE page.h1, city |-> NA, category |-> NA,
         website |-> IF website = "" THEN NA ELSE website]

\* results.length % PARTIAL_SAVE_INTERVAL === 0 && results.length > 0
SnapshotDue(n) == n % PARTIAL_SAVE_INTERVAL = 0 /\ n > 0

\* savePartialResults(data, filename): the file holds data, unless mkdirSync or
\* writeFileSync throws
savePartialResults(old, dataToSave, fsOk) ==
    IF fsOk THEN [file |-> dataToSave, threw |-> FALSE] ELSE [file |-> old, threw |-> TRUE]

CliInit ==
    /\ cLinks \in 1..MaxCliLinks
    /\ cPos = 1
    /\ cResults = <<>>
    /\ partial = <<>>
    /\ partialWrites = 0

CliIdle ==
    /\ cLinks = 0
    /\ cPos = 1
    /\ cResults = <<>>
    /\ partial = <<>>
    /\ partialWrites = 0

\* one pass of the loop: extractPlaceData returns null ("navFailed" after its
\* retries, "notReady") or the record of the loaded page; the record is pushed
\* if its website passes the filter; then the partial snapshot is taken if due
\* (an exception of savePartialResults is caught by the loop's try/catch)
CliItem(outcome, page, fsOk) ==
    /\ cPos <= cLinks
    /\ LET rec == CliRecord(page)
           results == IF outcome = "loaded" /\ Accepts(rec.website)
                      THEN Append(cResults, rec) ELSE cResults
           saved == savePartialResults(partial, results, fsOk)
       IN  /\ cResults' = results
           /\ IF SnapshotDue(Len(results))
              THEN /\ partial' = saved.file
                   /\ partialWrites' = IF saved.threw THEN partialWrites ELSE partialWrites + 1
              ELSE UNCHANGED <<partial, partialWrites>>
    /\ cPos' = cPos + 1
    /\ UNCHANGED cLinks

(***************************************************************************)
(* Extraction of one place from its detail page: extractPlaceData and its  *)
(* field extractors (scraper.ts), and the body of the per-place loop of    *)
(* the web server.  A page is a record                                     *)
(*   h1:      text of the h1 element                                       *)
(*   cat:     text of the first element matching each category selector    *)
(*   buttons: texts of the page's button elements, in document order       *)
(*   addr:    text of the first element matching each address selector     *)
(*   web:     href of the first element matching each website selector     *)
(*   alt:     href of the first a[aria-label*="website" i]                 *)
(* with None where no element matches.                                     *)
(***************************************************************************)
\* the least index whose element satisfies Ok, 0 if there is none
FirstWhere(list, Ok(_)) ==
    IF \E i \in 1..Len(list) : Ok(list[i])
    THEN CHOOSE i \in 1..Len(list) : Ok(list[i]) /\ \A j \in 1..(i - 1) : ~Ok(list[j])
    ELSE 0

\* value || 'N/A'
OrNA(value) == IF value = "" THEN NA ELSE value

\* extractName: cleanText of the h1's text; '' if the query throws
extractName(page, throws) == IF throws THEN "" ELSE cleanText(page.h1)

\* extractCategory, selector loop: if (element) { if (text &&
\* !text.includes(separator) && text.length < 100) return cleanText(text) }
CategoryOk(text) ==
    /\ text # None
    /\ text # ""
    /\ ~Includes(Chars(text), <<Separator>>)
    /\ Len(Chars(text)) < 100

\* extractCategory, fallback scan of the buttons: text.length > 2 &&
\* text.length < 50 && !/\d/.test(text) && !text.includes('Directions')
ButtonOk(text) ==
    LET c == Chars(text)
    IN  /\ Len(c) > 2
        /\ Len(c) < 50
        /\ \A i \in 1..Len(c) : ~IsDigit(c[i])
        /\ ~Includes(c, Chars("Directions"))

\* extractCategory
extractCategory(page, throws) ==
    IF throws THEN [value |-> "", tried |-> 1]
    ELSE LET i == FirstWhere(page.cat, CategoryOk)
             j == FirstWhere(page.buttons, ButtonOk)
         IN  IF i > 0 THEN [value |-> cleanText(page.cat[i]), tried |-> i]
             ELSE [value |-> cleanText(IF j > 0 THEN page.buttons[j] ELSE ""),
                   tried |-> Len(page.cat) + 1]

\* extractCity: if (element) { if (fullAddress) return parseCityFromAddress(fullAddress) }
AddressOk(text) == text # None /\ text # ""

\* extractCity
extractCity(page, throws) ==
    IF throws THEN [value |-> "", tried |-> 1]
    ELSE LET i == FirstWhere(page.addr, AddressOk)
         IN  IF i > 0
             THEN [value |-> Str(parseCityFromAddress(Chars(page.addr[i]))), tried |-> i]
             ELSE [value |-> "", tried |-> Len(page.addr)]

\* extractWebsite, selector loop: if (href) { actualUrl = extractActualUrl(href);
\* if (actualUrl.startsWith('http') && !isGoogleUrl(actualUrl)) return actualUrl }
WebsiteOk(href) ==
    /\ href # None
    /\ href # ""
    /\ StartsWithHttp(extractActualUrl(href))
    /\ ~isGoogleUrl(extractActualUrl(href))

\* extractWebsite, the a[aria-label*="website" i] alternative:
\* if (href) { if (!isGoogleUrl(actualUrl)) return actualUrl }
AltWebsiteOk(href) ==
    /\ href # None
    /\ href # ""
    /\ ~isGoogleUrl(extractActualUrl(href))

\* extractWebsite over all its selectors
extractWebsiteOf(page, throws) ==
    IF throws THEN [value |-> "", tried |-> 1]
    ELSE LET i == FirstWhere(page.web, WebsiteOk)
         IN  IF i > 0 THEN [value |-> extractActualUrl(page.web[i]), tried |-> i]
             ELSE [value |-> IF AltWebsiteOk(page.alt) THEN extractActualUrl(page.alt) ELSE "",
                   tried |-> Len(page.web) + 1]

\* extractPlaceData: null if the navigation or the wait for h1 threw, else
\* { name: name || 'N/A', city: city || 'N/A', category: ..., website: ... }
extractPlaceData(nav, page, fault) ==
    IF nav # "loaded" THEN <<>>
    ELSE << [name |-> OrNA(extractName(page, fault = "name")),
             city |-> OrNA(extractCity(page, fault = "city").value),
             category |-> OrNA(extractCategory(page, fault = "category").value),
             website |-> OrNA(extractWebsiteOf(page, fault = "website").value)] >>

\* server: page.$eval('h1', el => el.textContent?.trim() || 'N/A').catch(() => 'N/A')
ServerNameOf(page, throws) ==
    IF throws THEN NA ELSE OrNA(Str(Trim(Chars(page.h1))))

\* server: category = 'N/A'; try { catElement = page.$('button[jsaction*="category"]');
\* if (catElement) category = await catElement.textContent() || 'N/A' } catch {}
ServerCategory(page, throws) ==
    IF throws \/ page.cat[1] = None THEN NA ELSE OrNA(page.cat[1])

\* server: city = 'N/A'; try { if (addrElement) { addr = textContent || '';
\* parts = addr.split(','); if (parts.length >= 2)
\* city = parts[parts.length - 2].replace(/\d+/g, '').trim() } } catch {}
ServerCity(page, throws) ==
    IF throws \/ page.addr[1] = None THEN NA
    ELSE LET parts == Split(Chars(page.addr[1]), ",")
         IN  IF Len(parts) >= 2 THEN Str(Trim(ReplaceDigits(parts[Len(parts) - 1])))
             ELSE NA

\* server: the record built by one pass of the per-place loop, none if
\* page.goto or waitForSelector('h1') threw (the pass's catch logs and goes on)
ServerExtract(nav, page, fault) ==
    IF nav # "loaded" THEN <<>>
    ELSE << [name |-> ServerNameOf(page, fault = "name"),
             city |-> ServerCity(page, fault = "city"),
             category |-> ServerCategory(page, fault = "category"),
             website |-> IF fault = "website" THEN NA ELSE ServerWebsite(page.web[2])] >>

H1Texts == {"Cafe", " "}

CategoryElements ==
    { [cat |-> <<None, None, None, None>>, buttons |-> <<>>],
      [cat |-> <<" Cafe  Bar ", None, None, None>>, buttons |-> <<>>],
      [cat |-> <<"4*", "", "Bar", None>>, buttons |-> <<>>],
      [cat |-> <<" ", None, "Cafe", None>>, buttons |-> <<>>],
      [cat |-> <<None, None, None, None>>, buttons |-> <<"Directions", "4*", "Bar">>] }

AddressElements ==
    { <<None, None, None>>,
      <<"123 Main St, New York, NY 10001", None, None>>,
      <<"12, NY", None, "Paris">>,
      <<"", None, "Paris">> }

WebsiteElements ==
    { [web |-> <<None, None, None, None>>, alt |-> None],
      [web |-> <<"http://a.com", "http://a.com", None, None>>, alt |-> None],
      [web |-> <<"https://www.google.com/maps", "https://www.google.com/maps", None,
                 "/url?q=http%3A%2F%2Fa.com&sa=U">>, alt |-> None],
      [web |-> <<"tel:+15550100", "tel:+15550100", None, None>>, alt |-> "https://b.org"],
      [web |-> <<None, None, None, None>>, alt |-> "tel:+15550100"],
      [web |-> <<None, None, None,
                 "https://www.google.com/url?q=https%3A%2F%2Fb.org%2F%3Fa%26b&sa=U">>,
       alt |-> None],
      [web |-> <<None, None, None, "/url?q=https%3A%2F%2Fmaps.google.com%2F&sa=U">>,
       alt |-> None],
      [web |-> <<"https://google.com/", "https://google.com/", None, None>>,
       alt |-> "https://Maps.Google.com/x"],
      [web |-> <<None, None, None, None>>, alt |-> "https://Maps.Google.com/x"],
      [web |-> <<"https://notgoogle.com/", "https://notgoogle.com/", None, None>>,
       alt |-> None],
      [web |-> <<"https://google.com.evil.org/", "https://google.com.evil.org/", None, None>>,
       alt |-> None],
      [web |-> <<"https://b.org/?ref=google.com", "https://b.org/?ref=google.com", None, None>>,
       alt |-> None] }

DetailPages ==
    { [h1 |-> h, cat |-> c.cat, buttons |-> c.buttons, addr |-> a, web |-> w.web, alt |-> w.alt] :
          h \in H1Texts, c \in CategoryElements, a \in AddressElements, w \in WebsiteElements }

NoPage ==
    [h1 |-> "", cat |-> <<None, None, None, None>>, buttons |-> <<>>,
     addr |-> <<None, None, None>>, web |-> <<None, None, None, None>>, alt |-> None]

NoTried == [category |-> 0, city |-> 0, website |-> 0]

ExtractInit ==
    /\ xVariant \in {"cli", "server"}
    /\ xNav \in {"navFailed", "notReady", "loaded"}
    /\ xPage \in DetailPages
    /\ xFault \in {"none", "name", "category", "city", "website"}
    /\ xpc = "start"
    /\ xRet = <<>>
    /\ xTried = NoTried

ExtractIdle ==
    /\ xVariant = "cli"
    /\ xNav = "navFailed"
    /\ xPage = NoPage
    /\ xFault = "none"
    /\ xpc = "done"
    /\ xRet = <<>>
    /\ xTried = NoTried

\* one call of extractPlaceData, or one pass of the server's loop body up to
\* the record it builds
ExtractPlace ==
    /\ xpc = "start"
    /\ xpc' = "done"
    /\ xRet' = IF xVariant = "cli" THEN extractPlaceData(xNav, xPage, xFault)
               ELSE ServerExtract(xNav, xPage, xFault)
    /\ xTried' = IF xNav # "loaded" THEN NoTried
                 ELSE IF xVariant = "cli"
                 THEN [category |-> extractCategory(xPage, xFault = "category").tried,
                       city |-> extractCity(xPage, xFault = "city").tried,
                       website |-> extractWebsiteOf(xPage, xFault = "website").tried]
                 ELSE [category |-> 1, city |-> 1, website |-> 1]
    /\ UNCHANGED <<xVariant, xNav, xPage, xFault>>

(***************************************************************************)
(* parseCityFromAddress applied to one address                             *)
(***************************************************************************)
AddressAlphabet == {"a", "1", " ", ","}

ParseInit ==
    /\ aAddress \in SeqsUpTo(AddressAlphabet, MaxAddrLen)
    /\ aCity = <<>>
    /\ apc = "start"

ParseIdle ==
    /\ aAddress = <<>>
    /\ aCity = <<>>
    /\ apc = "done"

ParseCity ==
    /\ apc = "start"
    /\ aCity' = parseCityFromAddress(aAddress)
    /\ apc' = "done"
    /\ UNCHANGED aAddress

(***************************************************************************)
(* CSV export: exportToCSV (utils/export) and GET                          *)
(* /api/download/:sessionId/csv of the web server, on one record           *)
(***************************************************************************)
\* the characters field values are made of: a letter, the comma, the double
\* quote and the line feed
CsvAlphabet == {"a", ",", "\"", "\n"}

CsvFields == SeqsUpTo(CsvAlphabet, MaxFieldLen)

\* const headers = ['name', 'city', 'category', 'website'] (exportToCSV) and
\* ['name', 'city', 'category', 'website', 'keyword'] (server)
CsvHeaders(variant) ==
    IF variant = "cli" THEN <<"name", "city", "category", "website">>
    ELSE <<"name", "city", "category", "website", "keyword">>

\* the characters of the header names
HeaderChars ==
    [name |-> <<"n", "a", "m", "e">>, city |-> <<"c", "i", "t", "y">>,
     category |-> <<"c", "a", "t", "e", "g", "o", "r", "y">>,
     website |-> <<"w", "e", "b", "s", "i", "t", "e">>,
     keyword |-> <<"k", "e", "y", "w", "o", "r", "d">>]

\* values of the category field: plain, with a comma, and on two lines (the
\* server stores the textContent of the category button as it is)
CsvCategories == {<<"a">>, <<"a", ",", "a">>, <<"a", "\n", "a">>}

\* the records exported: PlaceData (exportToCSV) and PlaceDataWithKeyword (server)
CsvItems(variant) ==
    IF variant = "cli"
    THEN [name : CsvFields, city : CsvFields, category : CsvCategories,
          website : {<<"a">>}]
    ELSE [name : CsvFields, city : CsvFields, category : CsvCategories,
          website : {<<"a">>}, keyword : {<<"a">>, <<"\"">>}]

\* parts.join(sep)
RECURSIVE Join(_, _)
Join(parts, sep) ==
    IF parts = <<>> THEN <<>>
    ELSE IF Len(parts) = 1 THEN parts[1]
    ELSE parts[1] \o sep \o Join(Tail(parts), sep)

\* value.replace(/"/g, '""')
RECURSIVE DoubleQuotes(_)
DoubleQuotes(s) ==
    IF s = <<>> THEN <<>>
    ELSE (IF Head(s) = "\"" THEN <<"\"", "\"">> ELSE <<Head(s)>>) \o DoubleQuotes(Tail(s))

\* the callback of headers.map: value = item[header] || ''; if
\* (value.includes(',') || value.includes('"')) return `"${value.replace(/"/g, '""')}"`;
\* return value
CsvCell(value) ==
    IF Includes(value, <<",">>) \/ Includes(value, <<"\"">>)
    THEN <<"\"">> \o DoubleQuotes(value) \o <<"\"">>
    ELSE value

\* headers.map(...) for one item
CsvCellsOf(item, headers) == [i \in 1..Len(headers) |-> CsvCell(item[headers[i]])]

\* csvRows = [headers.join(',')]; csvRows.push(row.join(',')); csvRows.join('\n')
CsvText(item, headers) ==
    Join(<<Join([i \in 1..Len(headers) |-> HeaderChars[headers[i]]], <<",">>),
           Join(CsvCellsOf(item, headers), <<",">>)>>, <<"\n">>)

CsvInit ==
    /\ csvVariant \in {"cli", "server"}
    /\ csvItem \in CsvItems(csvVariant)
    /\ csvCells = <<>>
    /\ csvOut = <<>>
    /\ csvpc = "start"

CsvIdle ==
    /\ csvVariant = "cli"
    /\ csvItem = [name |-> <<>>, city |-> <<>>, category |-> <<>>, website |-> <<>>]
    /\ csvCells = <<>>
    /\ csvOut = <<>>
    /\ csvpc = "done"

\* exportToCSV([item], filename), or the download of a session whose results
\* are [item]
ExportCsv ==
    /\ csvpc = "start"
    /\ csvCells' = CsvCellsOf(csvItem, CsvHeaders(csvVariant))
    /\ csvOut' = CsvText(csvItem, CsvHeaders(csvVariant))
    /\ csvpc' = "done"
    /\ UNCHANGED <<csvVariant, csvItem>>

(***************************************************************************)
(* The command line program: main (index.ts) and GoogleMapsScraper.search  *)
(* with navigateWithRetry (scraper.ts)                                     *)
(***************************************************************************)
\* a navigateWithRetry that returns after the last failed attempt instead of
\* throwing: what the code is not
RetryOutcomeQuiet(gotoOk, attempt) ==
    IF gotoOk \/ attempt = MAX_RETRIES THEN "return" ELSE "retry"

\* navigateWithRetry, one pass of the loop: return after a load; in the catch,
\* throw error if attempt === MAX_RETRIES, else wait and go round again
RetryOutcome(gotoOk, attempt) ==
    IF gotoOk THEN "return"
    ELSE IF attempt = MAX_RETRIES THEN "throw" ELSE "retry"

MainInit ==
    /\ mpc = "launch"
    /\ mBrowser = "none"
    /\ mAttempt = 1
    /\ mSearch = "none"
    /\ mReturned = <<>>
    /\ mGotos = <<>>
    /\ mWaits = <<>>
    /\ mExit = None

MainIdle ==
    /\ mpc = "done"
    /\ mBrowser = "none"
    /\ mAttempt = 1
    /\ mSearch = "none"
    /\ mReturned = <<>>
    /\ mGotos = <<>>
    /\ mWaits = <<>>
    /\ mExit = None

\* main: createBrowser, createContext, context.newPage, new GoogleMapsScraper
\* and the call of scraper.search; an exception goes to main's catch
MainLaunch(outcome) ==
    /\ mpc = "launch"
    /\ CASE outcome = "ok" ->
              mpc' = "goto" /\ mBrowser' = "open" /\ mSearch' = "running"
         [] outcome = "launchFailed" ->
              mpc' = "caught" /\ mBrowser' = "none" /\ mSearch' = mSearch
         [] outcome = "contextFailed" ->
              mpc' = "caught" /\ mBrowser' = "open" /\ mSearch' = mSearch
    /\ UNCHANGED <<mAttempt, mReturned, mGotos, mWaits, mExit, cliVars>>

\* search, "await this.navigateWithRetry(searchUrl)": one page.goto.  The call
\* is outside any try of search, so what navigateWithRetry throws leaves search
SearchGoto(gotoOk) ==
    /\ mpc = "goto"
    /\ mAttempt <= MAX_RETRIES
    /\ mGotos' = Append(mGotos, gotoOk)
    /\ LET o == RetryOutcome(gotoOk, mAttempt)
       IN  /\ mpc' = CASE o = "return" -> "feed"
                       [] o = "throw" -> "caught"
                       [] OTHER -> "backoff"
           /\ mSearch' = IF o = "throw" THEN "raised" ELSE mSearch
    /\ UNCHANGED <<mBrowser, mAttempt, mReturned, mWaits, mExit, cliVars>>

\* navigateWithRetry: await randomDelay(2000, 5000), then attempt++
SearchBackoff(d) ==
    /\ mpc = "backoff"
    /\ d \in randomDelay(2000, 5000)
    /\ mWaits' = Append(mWaits, d)
    /\ mAttempt' = mAttempt + 1
    /\ mpc' = "goto"
    /\ UNCHANGED <<mBrowser, mSearch, mReturned, mGotos, mExit, cliVars>>

\* search, steps 2 and 3: the consent dialog, then the wait for a results
\* selector; if (!resultsFound) return results
SearchFeed(resultsFound) ==
    /\ mpc = "feed"
    /\ IF resultsFound
       THEN mpc' = "collect" /\ UNCHANGED <<mSearch, mReturned>>
       ELSE mpc' = "export" /\ mSearch' = "returned" /\ mReturned' = <<>>
    /\ UNCHANGED <<mBrowser, mAttempt, mGotos, mWaits, mExit, cliVars>>

\* search, step 4: placeLinks = await this.scrollAndCollectLinks(maxResults),
\* which returns n links or throws (its page.evaluate is outside any try)
SearchCollect(n, throws) ==
    /\ mpc = "collect"
    /\ IF throws
       THEN mpc' = "caught" /\ mSearch' = "raised" /\ UNCHANGED cLinks
       ELSE mpc' = "items" /\ mSearch' = mSearch /\ cLinks' = n
    /\ UNCHANGED <<mBrowser, mAttempt, mReturned, mGotos, mWaits, mExit,
                   cPos, cResults, partial, partialWrites>>

\* search, step 5: one pass of the per-place loop
SearchItem(outcome, page, fsOk) ==
    /\ mpc = "items"
    /\ CliItem(outcome, page, fsOk)
    /\ UNCHANGED mainVars

\* search: return results
SearchReturn ==
    /\ mpc = "items"
    /\ cPos > cLinks
    /\ mpc' = "export"
    /\ mSearch' = "returned"
    /\ mReturned' = cResults
    /\ UNCHANGED <<mBrowser, mAttempt, mGotos, mWaits, mExit, cliVars>>

\* main: exportToJSON and exportToCSV (their mkdirSync / writeFileSync can
\* throw) and the sample listing, up to the end of the try block
MainExport(fsOk) ==
    /\ mpc = "export"
    /\ mpc' = IF fsOk THEN "finally" ELSE "caught"
    /\ UNCHANGED <<mBrowser, mAttempt, mSearch, mReturned, mGotos, mWaits, mExit, cliVars>>

\* main: catch (error) { logger.error(...); process.exit(1) }.  process.exit
\* ends the process at once: the finally block is not run
MainCaught ==
    /\ mpc = "caught"
    /\ mpc' = "exited"
    /\ mExit' = "1"
    /\ UNCHANGED <<mBrowser, mAttempt, mSearch, mReturned, mGotos, mWaits, cliVars>>

\* main: finally { if (browser) await browser.close() }
MainFinally ==
    /\ mpc = "finally"
    /\ mpc' = "done"
    /\ mBrowser' = IF HasBrowser(mBrowser) THEN "closed" ELSE mBrowser
    /\ UNCHANGED <<mAttempt, mSearch, mReturned, mGotos, mWaits, mExit, cliVars>>

(***************************************************************************)
(* Specifications                                                          *)
(***************************************************************************)
vars == <<storeVars, callVars, discVars, navVars, sessVars, cliVars, exVars, parseVars, csvVars, mainVars>>

InitStore == CliIdle /\ ExtractIdle /\ ParseIdle /\ CsvIdle /\ MainIdle /\ StoreInit /\ CallInit /\ DiscoverIdle /\ NavIdle /\ SessionIdle

NextStore ==
    \/ \E p \in StorePlaces, f \in FsFaults : AddPlace(p, f) /\ UNCHANGED <<discVars, navVars, sessVars, cliVars, exVars, parseVars, csvVars, mainVars>>
    \/ \E ps \in StoreLists, f \in FsFaults : AddPlaces(ps, f) /\ UNCHANGED <<discVars, navVars, sessVars, cliVars, exVars, parseVars, csvVars, mainVars>>
    \/ \E f \in FsFaults : Reset(f) /\ UNCHANGED <<discVars, navVars, sessVars, cliVars, exVars, parseVars, csvVars, mainVars>>

SpecStore == InitStore /\ [][NextStore]_vars

InitDiscover == CliIdle /\ ExtractIdle /\ ParseIdle /\ CsvIdle /\ MainIdle /\ StoreInit /\ CallInit /\ DiscoverInit /\ NavIdle /\ SessionIdle

NextDiscover ==
    \/ \E nl \in Polls, thr \in BOOLEAN, eor \in BOOLEAN :
          Poll(nl, thr, eor) /\ UNCHANGED <<storeVars, callVars, navVars, sessVars, cliVars, exVars, parseVars, csvVars, mainVars>>
    \/ LoopExit /\ UNCHANGED <<storeVars, callVars, navVars, sessVars, cliVars, exVars, parseVars, csvVars, mainVars>>

SpecDiscover == InitDiscover /\ [][NextDiscover]_vars

InitNav == CliIdle /\ ExtractIdle /\ ParseIdle /\ CsvIdle /\ MainIdle /\ StoreInit /\ CallInit /\ DiscoverIdle /\ NavInit /\ SessionIdle

NextNav ==
    \/ \E ok \in BOOLEAN, present \in SUBSET AllSelectors :
          NavAttempt(ok, present) /\ UNCHANGED <<storeVars, callVars, discVars, sessVars, cliVars, exVars, parseVars, csvVars, mainVars>>
    \/ \E d \in Delays : NavBackoff(d) /\ UNCHANGED <<storeVars, callVars, discVars, sessVars, cliVars, exVars, parseVars, csvVars, mainVars>>

SpecNav == InitNav /\ [][NextNav]_vars

InitCli == CliInit /\ ExtractIdle /\ ParseIdle /\ CsvIdle /\ MainIdle /\ StoreInit /\ CallInit /\ DiscoverIdle /\ NavIdle /\ SessionIdle

NextCli ==
    \E o \in {"navFailed", "notReady", "loaded"}, pg \in Pages(Hrefs \cup {None}), ok \in BOOLEAN :
        CliItem(o, pg, ok) /\ UNCHANGED <<storeVars, callVars, discVars, navVars, sessVars, exVars, parseVars, csvVars, mainVars>>

SpecCli == InitCli /\ [][NextCli]_vars

InitExtract ==
    /\ CliIdle /\ ExtractInit /\ ParseIdle /\ CsvIdle /\ MainIdle
    /\ StoreInit /\ CallInit /\ DiscoverIdle /\ NavIdle /\ SessionIdle

NextExtract ==
    ExtractPlace /\ UNCHANGED <<storeVars, callVars, discVars, navVars, sessVars, cliVars, parseVars,
                               csvVars, mainVars>>

SpecExtract == InitExtract /\ [][NextExtract]_vars

InitParse ==
    /\ CliIdle /\ ExtractIdle /\ ParseInit /\ CsvIdle /\ MainIdle
    /\ StoreInit /\ CallInit /\ DiscoverIdle /\ NavIdle /\ SessionIdle

NextParse ==
    ParseCity /\ UNCHANGED <<storeVars, callVars, discVars, navVars, sessVars, cliVars, exVars,
                            csvVars, mainVars>>

SpecParse == InitParse /\ [][NextParse]_vars

InitCsv ==
    /\ CliIdle /\ ExtractIdle /\ ParseIdle /\ CsvInit /\ MainIdle
    /\ StoreInit /\ CallInit /\ DiscoverIdle /\ NavIdle /\ SessionIdle

NextCsv ==
    ExportCsv /\ UNCHANGED <<storeVars, callVars, discVars, navVars, sessVars, cliVars, exVars,
                             parseVars, mainVars>>

SpecCsv == InitCsv /\ [][NextCsv]_vars

\* one batch session at a time, with the full range of inputs
ServerPolls == SeqsUpTo({"/maps/place/a", "/maps/place/b"}, MaxPoll)
ServerKeywords == {<<"k1">>, <<"k1", "k2">>}

InitServer == CliIdle /\ ExtractIdle /\ ParseIdle /\ CsvIdle /\ MainIdle /\ StoreInit /\ CallInit /\ DiscoverIdle /\ NavIdle /\ SessionInit

Next ==
    NextServer({"s1"}, ServerKeywords, Limits, ServerPolls, Pages(Hrefs \cup {None}), FsFaults)

Spec == InitServer /\ [][Next]_vars

\* one batch session with a feed of at most one link, where a started task
\* keeps being scheduled: each of its awaits (browser launch, navigation,
\* selector wait, evaluate, close) settles
LivePolls == {<<>>, <<"/maps/place/a">>}
LivePages == Pages({"http://a.com", None})

NextLive ==
    NextServer({"s1"}, ServerKeywords, {Undefined, Some(1)}, LivePolls, LivePages, FsFaults)

SpecLive ==
    /\ InitServer
    /\ [][NextLive]_vars
    /\ WF_vars(TaskSteps({"s1"}, LivePolls, LivePages, FsFaults))

InitMain ==
    /\ CliIdle /\ ExtractIdle /\ ParseIdle /\ CsvIdle /\ MainInit
    /\ StoreInit /\ CallInit /\ DiscoverIdle /\ NavIdle /\ SessionIdle

\* what the command line program leaves alone
notMainVars == <<storeVars, callVars, discVars, navVars, sessVars, exVars, parseVars, csvVars>>

NextMain ==
    \/ \E o \in {"ok", "launchFailed", "contextFailed"} : MainLaunch(o) /\ UNCHANGED notMainVars
    \/ \E ok \in BOOLEAN : SearchGoto(ok) /\ UNCHANGED notMainVars
    \/ \E d \in randomDelay(2000, 5000) : SearchBackoff(d) /\ UNCHANGED notMainVars
    \/ \E found \in BOOLEAN : SearchFeed(found) /\ UNCHANGED notMainVars
    \/ \E n \in 0..MaxCliLinks, thr \in BOOLEAN : SearchCollect(n, thr) /\ UNCHANGED notMainVars
    \/ \E o \in {"navFailed", "notReady", "loaded"}, pg \in LivePages, ok \in BOOLEAN :
          SearchItem(o, pg, ok) /\ UNCHANGED notMainVars
    \/ SearchReturn /\ UNCHANGED notMainVars
    \/ \E ok \in BOOLEAN : MainExport(ok) /\ UNCHANGED notMainVars
    \/ MainCaught /\ UNCHANGED notMainVars
    \/ MainFinally /\ UNCHANGED notMainVars

SpecMain == InitMain /\ [][NextMain]_vars

\* one batch session of one keyword on a feed that may never run out, with
\* fairly scheduled tasks
EndlessPolls == {<<>>} \cup {<<l>> : l \in Links}

NextEndless ==
    \/ NextServer({"s1"}, {<<"k1">>}, {Undefined, Some(1)}, EndlessPolls, LivePages, {"ok"})
    \/ \E l \in Links, thr \in BOOLEAN :
          DiscoverFresh("s1", l, thr)

SpecEndless ==
    /\ InitServer
    /\ [][NextEndless]_vars
    /\ WF_vars(\/ TaskSteps({"s1"}, EndlessPolls, LivePages, {"ok"})
               \/ \E l \in Links, thr \in BOOLEAN : DiscoverFresh("s1", l, thr))

\* two concurrent batch sessions, each with one keyword and a short feed
NextMulti ==
    NextServer(Sessions, {<<"k1">>}, {Undefined, Some(1)},
               {<<>>, <<"/maps/place/a">>, <<"/maps/place/a", "/maps/place/b">>},
               Pages({"http://a.com", "https://b.org", None}), FsFaults)

SpecMulti == InitServer /\ [][NextMulti]_vars

(***************************************************************************)
(* Claims about the store                                                  *)
(***************************************************************************)
Websites(ps) == {ps[i].website : i \in 1..Len(ps)}

DistinctWebsites(ps) == \A i, j \in 1..Len(ps) : i # j => ps[i].website # ps[j].website

NoSentinel(ps) == \A i \in 1..Len(ps) : ps[i].website # NA

\* C2: no two store entries share a website other than the sentinel 'N/A',
\* after any sequence of addPlace, addPlaces and reset calls from the empty store
C2_DedupInvariant ==
    \A i, j \in 1..Len(data.places) :
        (i # j /\ data.places[i].website = data.places[j].website)
            => data.places[i].website = NA

\* C2 witness: an addPlaces list that holds the same website twice was merged
\* and only one of the two records was added
C2_Witness ==
    /\ lastCall.op = "addPlaces"
    /\ Len(lastCall.arg) = 2
    /\ lastCall.arg[1].website = lastCall.arg[2].website
    /\ lastCall.arg[1].website # NA
    /\ lastCall.ret = 1
    /\ lastCall.arg[1].website \in Websites(data.places)

\* a step that is a first addPlaces(ps) call: ps has pairwise distinct websites,
\* none of them stored, and the call returns
FirstAddAll(sentinelAllowed) ==
    /\ lastCall'.op = "addPlaces"
    /\ ~lastCall'.threw
    /\ DistinctWebsites(lastCall'.arg)
    /\ sentinelAllowed \/ NoSentinel(lastCall'.arg)
    /\ Websites(lastCall'.arg) \cap Websites(data.places) = {}

\* a step that repeats the addPlaces(ps) call made just before, which returned
\* Len(ps) for a list of pairwise distinct websites
SecondAddAll(sentinelAllowed) ==
    /\ lastCall.op = "addPlaces"
    /\ ~lastCall.threw
    /\ DistinctWebsites(lastCall.arg)
    /\ sentinelAllowed \/ NoSentinel(lastCall.arg)
    /\ lastCall.ret = Len(lastCall.arg)
    /\ lastCall'.op = "addPlaces"
    /\ lastCall'.arg = lastCall.arg

AddAllTwice(sentinelAllowed) ==
    /\ FirstAddAll(sentinelAllowed) =>
           /\ lastCall'.ret = Len(lastCall'.arg)
           /\ Len(data'.places) = Len(data.places) + Len(lastCall'.arg)
    /\ SecondAddAll(sentinelAllowed) =>
           /\ ~lastCall'.threw
           /\ lastCall'.ret = 0
           /\ data' = data

\* C8 as stated: for every list of N records with pairwise distinct websites,
\* none stored yet, the first addPlaces returns N and a second addPlaces of the
\* same list returns 0 and leaves the entries unchanged
C8_AddAllTwiceOriginal == [][AddAllTwice(TRUE)]_vars

\* C8 amended: the same for lists none of whose websites is the sentinel 'N/A'
C8_AddAllTwice == [][AddAllTwice(FALSE)]_vars

\* C8 witness: a list of two records was added in full (the store holds exactly
\* its two websites) and the call repeated right after returned 0
C8_Witness ==
    /\ lastCall.op = "addPlaces"
    /\ Len(lastCall.arg) = 2
    /\ DistinctWebsites(lastCall.arg)
    /\ NoSentinel(lastCall.arg)
    /\ lastCall.ret = 0
    /\ ~lastCall.threw
    /\ Len(data.places) = 2
    /\ Websites(data.places) = Websites(lastCall.arg)


(***************************************************************************)
(* Claims about link discovery                                             *)
(***************************************************************************)
\* the identifiers the polls of this run have shown so far
Seen == {l \in Links : stamp[l] # 0}

\* C3: discovery makes at most maxScrollAttempts iterations in total, for
\* every behaviour of the feed and every maxResults
C3_IterationCeiling == iters <= maxScrollAttempts

\* C4: discovery ends by the stability rule exactly when the latest
\* stableCountThreshold polls in a row have shown no new identifier, and it then
\* returns exactly the identifiers accumulated so far
C4_StabilityStop ==
    /\ (stopReason = "stable") <=> (stableRun >= stableCountThreshold)
    /\ stopReason = "stable" =>
           /\ dpc = "done"
           /\ stableRun = stableCountThreshold
           /\ Range(out) = Seen
           /\ Len(out) = Cardinality(Seen)

\* C4 witness: a run that saw a link after a poll without growth (the count
\* restarted) and later ended by the stability rule with links to return
C4_Witness ==
    /\ stopReason = "stable"
    /\ iters > stableCountThreshold + 1
    /\ \E l \in Links : stamp[l] > MaxPoll + 2 + MaxPoll
    /\ out # <<>>

\* C5: the returned sequence has no identifier twice, lists identifiers in the
\* order they were first seen across polls, and is the first maxResults
\* elements of the accumulated sequence if maxResults is set, else all of it
C5_ResultSequence ==
    dpc = "done" =>
        /\ NoDup(out)
        /\ Range(out) \subseteq Seen
        /\ \A i, j \in 1..Len(out) : i < j => stamp[out[i]] < stamp[out[j]]
        /\ \A l \in Seen \ Range(out) : \A i \in 1..Len(out) : stamp[out[i]] < stamp[l]
        /\ Len(out) = IF dMax = Undefined THEN Cardinality(Seen)
                      ELSE Min(dMax[1], Cardinality(Seen))

\* C5 witness: a run with maxResults = 2 that accumulated three identifiers over
\* several polls and returned the first two
C5_Witness ==
    /\ dpc = "done"
    /\ dMax = Some(2)
    /\ Cardinality(Seen) = 3
    /\ Len(out) = 2
    /\ iters >= 2
    /\ stamp[out[2]] > MaxPoll + 2 + MaxPoll

(***************************************************************************)
(* Claims about navigation                                                 *)
(***************************************************************************)
AllFailed(log) == \A i \in 1..Len(log) : ~log[i]

\* C6: navigateToUrl makes at most MAX_RETRIES navigation attempts, none after
\* the first that succeeds, returns false exactly when MAX_RETRIES attempts
\* have all failed, and never raises
C6_BoundedRetries ==
    /\ Len(nGotos) <= MAX_RETRIES
    /\ \A i \in 1..(Len(nGotos) - 1) : ~nGotos[i]
    /\ ~nRaised
    /\ npc = "done" =>
           /\ nResult \in {"true", "false"}
           /\ (nResult = "false") <=> (Len(nGotos) = MAX_RETRIES /\ AllFailed(nGotos))
    /\ (nGotos # <<>> /\ nGotos[Len(nGotos)]) => (npc = "done" /\ nResult = "true")
    /\ (Len(nGotos) = MAX_RETRIES /\ AllFailed(nGotos)) => (npc = "done" /\ nResult = "false")

\* C6 witness: a call whose MAX_RETRIES attempts all failed has returned false
C6_Witness ==
    /\ npc = "done"
    /\ nResult = "false"
    /\ Len(nGotos) = MAX_RETRIES
    /\ AllFailed(nGotos)
    /\ Len(nWaits) = MAX_RETRIES - 1

(***************************************************************************)
(* Claims about batch sessions                                             *)
(***************************************************************************)

\* C1 (as stated): a session is created running, and its status only ever
\* moves running -> completed or running -> error; a status of completed or
\* error never changes again.
C1_TerminalIsFinal ==
    [][\A s \in Sessions :
          /\ sess[s].status = "absent" => sess'[s].status \in {"absent", "running"}
          /\ sess[s].status = "running" => sess'[s].status \in {"running", "completed", "error"}
          /\ sess[s].status \in {"completed", "error"} => sess'[s].status = sess[s].status]_vars

\* the merge of session s into the store is over and the session is completed
Merged(s) == sess[s].status = "completed" /\ task[s].pc \in {"finally", "done"}

\* number of store entries with website w
Entries(w) == Cardinality({i \in 1..Len(data.places) : data.places[i].website = w})

\* C7: whatever the interleaving of the sessions of one process, the dedup
\* invariant holds in every state, every website of a session whose merge is
\* over has exactly one store entry (so after all sessions completed, each
\* distinct accepted website has exactly one), and the store holds nothing
\* that no session accepted.
C7_NoLostUpdate ==
    /\ \A i, j \in 1..Len(data.places) :
          (i < j /\ data.places[i].website = data.places[j].website)
              => data.places[i].website = NA
    /\ \A s \in Sessions : Merged(s) =>
          \A k \in 1..Len(sess[s].results) : Entries(sess[s].results[k].website) = 1
    /\ \A i \in 1..Len(data.places) :
          \E s \in Sessions : \E k \in 1..Len(task[s].allResults) :
              task[s].allResults[k].website = data.places[i].website

\* two sessions ran side by side, both completed and merged, with one website
\* accepted by both and one by a single session
C7_Witness ==
    /\ registered = Sessions
    /\ \A s \in Sessions : Merged(s) /\ task[s].pc = "done"
    /\ Len(data.places) = 2
    /\ \E k \in 1..Len(sess["s1"].results), l \in 1..Len(sess["s2"].results) :
          sess["s1"].results[k].website = sess["s2"].results[l].website
    /\ Len(sess["s1"].results) + Len(sess["s2"].results) >= 3

\* the step of session s is a pass of the per-place loop that ended in a fault
ItemFailed(s) ==
    /\ task[s].pc = "items"
    /\ task'[s] # task[s]
    /\ task'[s].lastItem \in {"navFailed", "notReady"}

\* the identifiers visited by the per-place loop are a prefix of placeLinks
\* while the loop runs and all of placeLinks once it is left
VisitedAll(s) ==
    IF task[s].pc = "items"
    THEN /\ task[s].i <= Len(task[s].placeLinks)
         /\ task[s].visited = SubSeq(task[s].placeLinks, 1, task[s].i - 1)
    ELSE task[s].visited = task[s].placeLinks

\* C9: an item whose navigation fails or whose page never becomes ready leaves
\* the session running and the job going: no record is added, the accepted
\* records are unchanged, the loop moves to the next identifier, and the loop
\* of a job is only left after all its identifiers were visited.
C9_ItemFaultIsolated ==
    [][\A s \in Sessions :
          /\ ItemFailed(s) =>
                /\ sess'[s] = sess[s]
                /\ sess[s].status = "running"
                /\ task'[s].pc \in {"items", "keyword"}
                /\ task'[s].allResults = task[s].allResults
                /\ task'[s].placeLinks = task[s].placeLinks
                /\ task'[s].i = task[s].i + 1
          /\ VisitedAll(s)']_vars

\* the first of two items failed after a record had been accepted for an
\* earlier keyword; the job goes on with the second item
C9_Witness ==
    /\ task["s1"].pc = "items"
    /\ task["s1"].lastItem \in {"navFailed", "notReady"}
    /\ task["s1"].i = 2
    /\ Len(task["s1"].placeLinks) = 2
    /\ Len(task["s1"].allResults) = 1
    /\ sess["s1"].results = task["s1"].allResults
    /\ sess["s1"].status = "running"

\* C10: a session in status error exposes exactly the records accepted up to
\* the fault, in acceptance order, and its error message is set.
C10_ErrorKeepsResults ==
    \A s \in Sessions :
        sess[s].status = "error" =>
            /\ sess[s].results = task[s].allResults
            /\ sess[s].progress = Len(task[s].allResults)
            /\ sess[s].error # None

\* a scroll of the second keyword failed after two records had been accepted
C10_Witness ==
    /\ sess["s1"].status = "error"
    /\ sess["s1"].error = "scroll failed"
    /\ Len(sess["s1"].results) = 2
    /\ sess["s1"].results[1].website # sess["s1"].results[2].website

\* the step of session s is a pass of the per-place loop
ItemStep(s) == task[s].pc = "items" /\ task'[s] # task[s]

\* C11: the progress of a session never decreases; it grows by exactly one at
\* each accepted record and is unchanged by an item that is skipped or fails.
C11_ProgressMonotone ==
    [][\A s \in Sessions :
          /\ sess'[s].progress >= sess[s].progress
          /\ ItemStep(s) =>
                IF task'[s].lastItem = "accepted"
                THEN /\ sess'[s].progress = sess[s].progress + 1
                     /\ Len(task'[s].allResults) = Len(task[s].allResults) + 1
                ELSE /\ task'[s].lastItem \in {"skipped", "navFailed", "notReady"}
                     /\ sess'[s].progress = sess[s].progress
                     /\ task'[s].allResults = task[s].allResults]_vars

\* a skipped item followed two accepted records and left progress at 2
C11_Witness ==
    /\ sess["s1"].progress = 2
    /\ task["s1"].lastItem = "skipped"
    /\ Len(task["s1"].visited) = 1
    /\ task["s1"].kwIdx = 2
    /\ sess["s1"].status = "running"

\* s is a prefix of t
IsPrefix(s, t) == Len(s) <= Len(t) /\ SubSeq(t, 1, Len(s)) = s

\* <<job, item>> pairs in lexicographic order
Before(a, b) == a[1] < b[1] \/ (a[1] = b[1] /\ a[2] < b[2])

\* the records of session s are in the order of the <<keyword index, position
\* in placeLinks>> they came from, each tagged with its job's keyword
InJobOrder(s) ==
    /\ Len(task[s].origins) = Len(task[s].allResults)
    /\ IsPrefix(sess[s].results, task[s].allResults)
    /\ \A k \in 1..Len(task[s].allResults) :
          task[s].allResults[k].keyword = task[s].keywords[task[s].origins[k][1]]
    /\ \A k, l \in 1..Len(task[s].origins) :
          k < l => Before(task[s].origins[k], task[s].origins[l])

\* C12: the records of a session are in the order of their keywords, each
\* tagged with the keyword of its job, and within a job in the order of the
\* job's identifiers; a later record never reorders or removes earlier ones.
C12_ResultOrder ==
    [][\A s \in Sessions :
          /\ IsPrefix(sess[s].results, sess'[s].results)
          /\ InJobOrder(s)']_vars

\* two records of the first keyword are followed by one of the second
C12_Witness ==
    /\ Len(sess["s1"].results) = 3
    /\ sess["s1"].results[1].keyword = "k1"
    /\ sess["s1"].results[2].keyword = "k1"
    /\ sess["s1"].results[3].keyword = "k2"
    /\ sess["s1"].results[1].website # sess["s1"].results[2].website
    /\ task["s1"].origins = <<(<<1, 1>>), (<<1, 2>>), (<<2, 2>>)>>

\* C13 (as stated): every record in a session's results has a website that is
\* a syntactically valid absolute http(s) URL whose host is neither google.com
\* nor a subdomain of it.
C13_WebsitesValid ==
    \A s \in Sessions : \A k \in 1..Len(sess[s].results) :
        /\ isValidWebsite(sess[s].results[k].website)
        /\ ~isGoogleUrl(sess[s].results[k].website)

\* browser, context and page of session s were acquired
Acquired(s) ==
    /\ task[s].pc \notin {"absent", "acquire"}
    /\ sess[s].error \notin {"launch failed", "context failed"}

\* no job of session s has discovered an identifier so far, each having ended
\* by a failed listing navigation, a missing feed or an empty feed (a scroll
\* that raised is not a discovery that returned)
ZeroDiscovery(s) ==
    /\ Acquired(s)
    /\ ~task[s].foundAny
    /\ sess[s].error # "scroll failed"

Terminal(s) == sess[s].status \in {"completed", "error"}

\* C15: a session that got a browser closes it exactly once, and only after
\* its status is completed or error; a session whose browser launch failed is
\* in error and closes nothing.
C15_BrowserClosedOnce ==
    /\ [](\A s \in Sessions :
             /\ task[s].closes <= 1
             /\ task[s].closes = 1 => (Terminal(s) /\ task[s].browser = "closed")
             /\ task[s].pc = "done" =>
                   /\ Terminal(s)
                   /\ task[s].browser # "open"
                   /\ task[s].closes = IF task[s].browser = "none" THEN 0 ELSE 1
             /\ (task[s].browser = "none" /\ task[s].pc \in {"finally", "done"}) =>
                   sess[s].status = "error")
    /\ [][\A s \in Sessions : task'[s].closes # task[s].closes => Terminal(s)]_vars
    /\ \A s \in Sessions : (task[s].browser = "open") ~> (task[s].closes = 1)

\* a session whose scroll failed after its browser was acquired has closed it
C15_Witness ==
    /\ task["s1"].pc = "done"
    /\ task["s1"].closes = 1
    /\ task["s1"].browser = "closed"
    /\ sess["s1"].status = "error"
    /\ sess["s1"].error = "scroll failed"

\* C16 (as stated): whatever the file system does during the final merge of a
\* session into the store, the session ends completed with all its accepted
\* records exposed.
C16_StorageFaultHarmless ==
    [][\A s \in Sessions :
          (task[s].pc = "merge" /\ task'[s].pc # "merge") =>
              /\ sess'[s].status = "completed"
              /\ sess'[s].error = None
              /\ sess'[s].results = task[s].allResults]_vars

\* C17 (as stated): a keyword of a batch session is skipped for a failed
\* listing navigation only after MAX_RETRIES attempts have all failed.
C17_ListingRetried ==
    \A s \in Sessions :
        task[s].listing = "navFailed" => task[s].listingGotos = MAX_RETRIES

\* C18 (as stated): whenever the number of accepted records of a running batch
\* session is a positive multiple of PARTIAL_SAVE_INTERVAL, the partial
\* snapshot holds the session's current result list.
C18_PartialSnapshot ==
    \A s \in Sessions :
        (sess[s].status = "running" /\ SnapshotDue(Len(sess[s].results)))
            => partial = sess[s].results

\* C19 (as stated): an iteration during which the end-of-list marker is in the
\* feed's trailing content is the last one: the loop is left (or the scroll
\* raised) in that same iteration, whatever the stable counter.
C19_EndMarkerStops == marker => dpc # "loop"

\* C20: with a result limit of 0 discovery makes at most one poll of the feed
\* and, once over, has returned the empty sequence because of the limit; with
\* no result limit the limit is never what stops the loop: a finished
\* discovery was stopped by the stability rule, the end marker or the
\* iteration ceiling, the latter only once the ceiling is reached.
C20_LimitZeroAndUndefined ==
    /\ dMax = Some(0) =>
           /\ iters <= 1
           /\ dpc # "threw"
           /\ dpc = "done" => out = <<>> /\ stopReason = "limit"
    /\ dMax = Undefined =>
           /\ stopReason # "limit"
           /\ dpc = "done" => stopReason \in {"stable", "end", "ceiling"}
           /\ stopReason = "ceiling" => scrollAttempts >= maxScrollAttempts

\* C20: a discovery with limit 0 is over: it made no poll, collected no link
\* and returned the empty sequence.
C20_Witness ==
    /\ dMax = Some(0)
    /\ dpc = "done"
    /\ out = <<>>
    /\ links = <<>>
    /\ iters = 0

\* the number of failed page.goto calls among the first n
RECURSIVE FailedAmong(_, _)
FailedAmong(log, n) ==
    IF n = 0 THEN 0 ELSE FailedAmong(log, n - 1) + (IF log[n] THEN 0 ELSE 1)

\* C21: the k-th wait of navigateToUrl follows failed attempt k with
\* k < MAX_RETRIES and lasts between 2^k and 2 * 2^k seconds inclusive, so
\* that both bounds of a window are twice those of the window before; every
\* failed attempt but the MAX_RETRIES-th is followed by a wait before the
\* next attempt, and the final failed attempt by none.
C21_BackoffWindows ==
    /\ Len(nWaits) <= MAX_RETRIES - 1
    /\ \A k \in 1..Len(nWaits) :
           /\ ~nGotos[k]
           /\ nWaits[k] >= Pow2(k) * 1000
           /\ nWaits[k] <= 2 * Pow2(k) * 1000
    /\ \A k \in 2..Len(nWaits) :
           /\ nWaits[k] >= 2 * (Pow2(k - 1) * 1000)
           /\ nWaits[k] <= 2 * (2 * Pow2(k - 1) * 1000)
    /\ npc = "goto" => Len(nWaits) = Len(nGotos)
    /\ npc = "backoff" => Len(nWaits) = Len(nGotos) - 1 /\ Len(nGotos) < MAX_RETRIES
    /\ (npc = "done" /\ nGotos # <<>>) =>
           Len(nWaits) = FailedAmong(nGotos, Min(Len(nGotos), MAX_RETRIES - 1))

\* C21 witness: MAX_RETRIES attempts failed; the first wait took the upper end
\* of its window, the second the lower end of the doubled window, and no
\* wait followed the last failure
C21_Witness ==
    /\ npc = "done"
    /\ nResult = "false"
    /\ Len(nGotos) = MAX_RETRIES
    /\ nWaits = <<4000, 4000>>

\* the readiness selectors of the call in the order the spec lists them: the
\* caller's own selector first if one was given, then those of the page type
ReadinessOrder ==
    (IF nOpts.custom THEN <<"custom">> ELSE <<>>) \o
    (IF nOpts.detail THEN <<"h1">>
     ELSE <<"[role=feed]", "div.m6QErb", ".m6QErb[aria-label]", "a.hfpxzc">>)

\* C22: once a page.goto of navigateToUrl has loaded the page the call is over
\* and has returned true, whichever readiness selectors resolve on the page
\* (none included); the selectors waited for are the readiness list in order
\* up to and including the first that resolves (the whole list if none
\* does); no attempt and no wait follows, and the call does not raise.
C22_ReadinessNeverFails ==
    (nGotos # <<>> /\ nGotos[Len(nGotos)]) =>
        /\ npc = "done"
        /\ nResult = "true"
        /\ ~nRaised
        /\ Len(nWaits) = Len(nGotos) - 1
        /\ IsPrefix(nReady.waited, ReadinessOrder)
        /\ \A i \in 1..(Len(nReady.waited) - 1) : nReady.waited[i] \notin nPresent
        /\ IF \E i \in 1..Len(ReadinessOrder) : ReadinessOrder[i] \in nPresent
           THEN /\ nReady.waited # <<>>
                /\ nReady.via = nReady.waited[Len(nReady.waited)]
                /\ nReady.via \in nPresent
           ELSE /\ nReady.waited = ReadinessOrder
                /\ nReady.via = None

\* C22 witness: a listing-page call with a custom selector loaded the page at
\* its first attempt, none of its five readiness selectors resolved, and it
\* returned true after one page.goto
C22_Witness ==
    /\ npc = "done"
    /\ nResult = "true"
    /\ nGotos = <<TRUE>>
    /\ nPresent = {}
    /\ Len(nReady.waited) = 5
    /\ nReady.via = None

(***************************************************************************)
(* Claims about extraction                                                 *)
(***************************************************************************)
\* C23 (as stated): an extraction whose navigation to the detail page
\* succeeded has returned a record, also when the wait for the detail page's
\* readiness selector timed out; it has returned none only when the
\* navigation failed after all its retries.
C23_RecordWheneverLoaded ==
    xpc = "done" =>
        /\ xNav \in {"loaded", "notReady"} => xRet # <<>>
        /\ xRet = <<>> => xNav = "navFailed"

\* what the resolver contract gives for an ordered list of strategy results:
\* the value of the earliest plausible one, with no strategy evaluated after
\* it, and the sentinel once every strategy has been evaluated in vain
Resolved(strategies, Plausible(_), Value(_)) ==
    LET i == FirstWhere(strategies, Plausible)
    IN  IF i > 0 THEN [value |-> Value(strategies[i]), tried |-> i]
        ELSE [value |-> NA, tried |-> Len(strategies)]

\* a category text that is non-empty once cleaned, shorter than 100
\* characters and free of the separator character
PlausibleCategory(text) ==
    /\ text \notin {None, ""}
    /\ cleanText(text) # ""
    /\ Len(Chars(text)) < 100
    /\ Separator \notin Range(Chars(text))

\* an address text whose locality is non-empty
PlausibleAddress(text) ==
    /\ text \notin {None, ""}
    /\ parseCityFromAddress(Chars(text)) # <<>>

LocalityOf(text) == Str(parseCityFromAddress(Chars(text)))

\* an href that, once unwrapped from a redirect, is an absolute http(s) URL
\* outside the platform's own domain
PlausibleWebsite(href) ==
    /\ href \notin {None, ""}
    /\ isValidWebsite(extractActualUrl(href))
    /\ ~isGoogleUrl(extractActualUrl(href))

\* the text found by the scan of the page's buttons, None if there is none
ButtonScan(page) ==
    LET j == FirstWhere(page.buttons, ButtonOk)
    IN  IF j > 0 THEN page.buttons[j] ELSE None

CategoryResolved(page) ==
    Resolved(page.cat \o <<ButtonScan(page)>>, PlausibleCategory, cleanText)

CityResolved(page) == Resolved(page.addr, PlausibleAddress, LocalityOf)

WebsiteResolved(page) ==
    Resolved(page.web \o <<page.alt>>, PlausibleWebsite, extractActualUrl)

\* C24 (as stated): for each of category, locality and website, extraction
\* from a loaded page with no failing query returns the value of the
\* earliest strategy of the field's list whose value is non-empty and
\* plausible, evaluates no strategy after that one, and reports none (the
\* sentinel in the record) only if no strategy of the list produces a
\* non-empty plausible value.
C24_FirstPlausibleWins ==
    (xpc = "done" /\ xVariant = "cli" /\ xNav = "loaded" /\ xFault = "none") =>
        /\ xRet[1].category = CategoryResolved(xPage).value
        /\ xTried.category = CategoryResolved(xPage).tried
        /\ xRet[1].city = CityResolved(xPage).value
        /\ xTried.city = CityResolved(xPage).tried
        /\ xRet[1].website = WebsiteResolved(xPage).value
        /\ xTried.website = WebsiteResolved(xPage).tried

FieldNames == {"name", "city", "category", "website"}

\* the record the same extraction builds when no page query throws
FaultFree ==
    IF xVariant = "cli" THEN extractPlaceData(xNav, xPage, "none")[1]
    ELSE ServerExtract(xNav, xPage, "none")[1]

\* C25 (as stated): in every record extraction has produced, by the CLI
\* scraper or by a batch session, no field is the empty string (each is a
\* non-empty value or the sentinel 'N/A'), and when the query of one field
\* threw, the other three fields are what they are without the fault.
C25_FieldsNeverEmpty ==
    (xpc = "done" /\ xRet # <<>>) =>
        /\ \A f \in FieldNames : xRet[1][f] # ""
        /\ \A f \in FieldNames \ {xFault} : xRet[1][f] = FaultFree[f]

SentinelOnlyIfHandedIn ==
    /\ (lastCall'.op \in {"addPlace", "addPlaces"}
            /\ NoSentinel(lastCall'.arg) /\ NoSentinel(data.places))
           => NoSentinel(data'.places)
    /\ (lastCall'.op = "addPlace" /\ lastCall'.arg[1].website = NA) =>
           /\ lastCall'.ret = TRUE
           /\ Len(data'.places) = Len(data.places) + 1
           /\ SubSeq(data'.places, 1, Len(data.places)) = data.places
           /\ data'.places[Len(data'.places)].website = NA

GrowsAtEndOnly ==
    lastCall'.op \in {"addPlace", "addPlaces"} =>
        /\ IsPrefix(data.places, data'.places)
        /\ (lastCall'.op = "addPlace" /\ ~lastCall'.threw /\ lastCall'.ret = TRUE) =>
               /\ data'.places = Append(data.places, Stamp(lastCall'.arg[1]))
               /\ data'.totalScraped = data.totalScraped + 1
        /\ (lastCall'.op = "addPlace" /\ ~lastCall'.threw /\ lastCall'.ret = FALSE) =>
               /\ lastCall'.arg[1].website \in Websites(data.places)
               /\ data' = data
               /\ file' = file
        /\ (lastCall'.op = "addPlaces" /\ ~lastCall'.threw) =>
               /\ Len(data'.places) = Len(data.places) + lastCall'.ret
               /\ data'.totalScraped = data.totalScraped + lastCall'.ret
               /\ lastCall'.ret = 0 => (data' = data /\ file' = file)

\* C27: except by reset the store's entries are never removed, modified or
\* reordered: a successful add appends exactly one entry at the end, and an
\* add rejected as a duplicate leaves the entries, totalScraped and the
\* backing file unchanged.
C27_GrowsAtEndOnly == [][GrowsAtEndOnly]_vars

\* C27 witness: an addPlace was rejected as a duplicate on a store of two
\* entries whose file is behind the data (an earlier write failed), and the
\* file is still behind
C27_Witness ==
    /\ lastCall.op = "addPlace"
    /\ lastCall.ret = FALSE
    /\ ~lastCall.threw
    /\ Len(data.places) = 2
    /\ lastCall.arg[1].website = data.places[1].website
    /\ file # data

\* a step of reset leaves no entry and a counter of 0; unless the write
\* fails the file then holds the empty store (it is written, not removed)
ResetStep ==
    lastCall'.op = "reset" =>
        /\ data'.places = <<>>
        /\ data'.totalScraped = 0
        /\ lastCall'.fs = "ok" => (file' = EmptyData /\ ~lastCall'.threw)
        /\ lastCall'.fs # "ok" => file' = file

\* the first successful addPlace after a reset is of a record none of whose
\* fields the reset store can hold against it: it returns true and is the
\* store's only entry
ReAddStep ==
    (lastCall.op = "reset" /\ lastCall'.op = "addPlace") =>
        /\ lastCall'.ret = TRUE
        /\ Len(data'.places) = 1
        /\ data'.places[1].website = lastCall'.arg[1].website
        /\ data'.totalScraped = 1

\* C28: reset leaves the store with zero entries and totalScraped = 0 and
\* rewrites the backing file with the empty store (a failing write leaves the
\* file as it was; it is never removed); a record, in particular one whose
\* website was stored before the reset, is added again afterwards.
C28_ResetClears == [][ResetStep /\ ReAddStep]_vars

\* C28 witness: a reset that met a working file system has been made: the
\* store has no entry, its counter is 0 and the file holds the empty store
C28_Witness ==
    /\ lastCall.op = "reset"
    /\ lastCall.fs = "ok"
    /\ ~lastCall.threw
    /\ data = EmptyData
    /\ file = EmptyData

(***************************************************************************)
(* Claims about the validation of batch requests                           *)
(***************************************************************************)
\* a step that answers a POST /api/scrape
RequestStep == resp' # resp \/ registered' # registered

\* the request has no effect: no session is registered or changed, and no
\* task is started (a browser is only ever acquired by a started task)
NoEffect == UNCHANGED <<registered, sess, task>>

\* exactly one session is new; it is running and has not acquired anything
\* yet; the other sessions are as they were
OneNewSession ==
    \E s \in Sessions :
        /\ s \notin registered
        /\ registered' = registered \cup {s}
        /\ sess'[s].status = "running"
        /\ task[s].pc = "absent" /\ task'[s].pc = "acquire"
        /\ \A t \in Sessions \ {s} : sess'[t] = sess[t] /\ task'[t] = task[t]

\* location is absent (or the empty string)
LocationMissing(location) == location.type = "undefined" \/ location = StrBody("")

\* keywords is absent or the empty array
KeywordsAbsentOrEmpty(keywords) == keywords.type = "undefined" \/ keywords = ArrBody(<<>>)

Answered(rejects) ==
    RequestStep =>
        IF rejects THEN resp'.code = "400" /\ NoEffect
        ELSE resp'.code = "200" /\ OneNewSession

\* C29 (as stated): a batch request whose location is missing or whose
\* keywords is absent or empty is rejected with a client error and has no
\* effect; every other request registers exactly one new session in status
\* running.
C29_RejectsOnlyMissing ==
    [][Answered(LocationMissing(resp'.location) \/ KeywordsAbsentOrEmpty(resp'.keywords))]_vars

\* C29 amended: a batch request whose location is missing, empty or not a
\* string, or whose keywords is absent, not an array or empty, is rejected
\* with a client error and has no effect; every other request registers
\* exactly one new session in status running.
C29_RejectsInvalid ==
    [][Answered(\/ LocationMissing(resp'.location)
                \/ resp'.location.type # "string"
                \/ KeywordsAbsentOrEmpty(resp'.keywords)
                \/ resp'.keywords.type # "array")]_vars

\* C29 witness: with one session registered and running, a request whose
\* location is a number (and whose keywords are valid) has been rejected and
\* no second session exists
C29_Witness ==
    /\ resp.code = "400"
    /\ resp.location = NumBody
    /\ resp.keywords = ArrBody(<<"k1">>)
    /\ registered = {"s1"}
    /\ sess["s1"].status = "running"
    /\ sess["s2"].status = "absent"
    /\ task["s2"].pc = "absent"

(***************************************************************************)
(* Claims about the locality of an address                                 *)
(***************************************************************************)
\* the locality the canonicalization rule gives: with two comma-separated
\* components or more, the second-to-last one with its digits removed, then
\* trimmed and its runs of whitespace collapsed to single spaces; otherwise
\* the address unchanged
Locality(address) ==
    LET components == Split(address, ",")
    IN  IF Len(components) >= 2
        THEN CollapseSpaces(Trim(ReplaceDigits(components[Len(components) - 1])))
        ELSE address

\* C30 (as stated): for every address with at least two comma-separated
\* components parseCityFromAddress returns the second-to-last component with
\* every run of digits removed and whitespace trimmed and collapsed to single
\* spaces; an address with fewer than two components is returned unchanged.
C30_LocalityRule == apc = "done" => aCity = Locality(aAddress)

(***************************************************************************)
(* Claims about the website resolver                                       *)
(***************************************************************************)
\* redirect-wrapped hrefs and the URL each wraps, written out by hand
WrappedExamples ==
    { <<"/url?q=http%3A%2F%2Fa.com&sa=U", "http://a.com">>,
      <<"https://www.google.com/url?q=https%3A%2F%2Fb.org%2F%3Fa%26b&sa=U",
        "https://b.org/?a&b">> }

\* direct https:// URLs whose host is not google.com nor under it
DirectExamples ==
    {"https://b.org", "https://notgoogle.com/", "https://google.com.evil.org/",
     "https://b.org/?ref=google.com"}

\* URLs whose hostname is google.com or a subdomain of it
GoogleHosted ==
    {"https://www.google.com/maps", "https://maps.google.com/", "https://google.com/",
     "https://Maps.Google.com/x",
     "https://www.google.com/url?q=https%3A%2F%2Fb.org%2F%3Fa%26b&sa=U"}

\* the href of the first website element the resolver finds on the page
FirstHref(page) ==
    IF \E i \in 1..Len(page.web) : page.web[i] # None
    THEN page.web[CHOOSE i \in 1..Len(page.web) :
                      page.web[i] # None /\ \A j \in 1..(i - 1) : page.web[j] = None]
    ELSE page.alt

\* C31: the website resolver returns the decoded inner URL for a
\* redirect-wrapped href containing url?q=<encoded>, returns a direct https://
\* URL unchanged, and never returns a URL, direct or unwrapped, whose hostname
\* is google.com or a subdomain of google.com
C31_WebsiteResolver ==
    (xpc = "done" /\ xVariant = "cli" /\ xNav = "loaded" /\ xFault # "website") =>
        /\ \A e \in WrappedExamples :
               FirstHref(xPage) = e[1] => xRet[1].website = e[2]
        /\ FirstHref(xPage) \in DirectExamples => xRet[1].website = FirstHref(xPage)
        /\ xRet[1].website \notin GoogleHosted

\* C31 witness: the resolver was given an absolute redirect URL on the
\* platform's own host and returned the URL it wraps, with its escaped '&'
\* decoded
C31_Witness ==
    /\ xpc = "done" /\ xVariant = "cli" /\ xNav = "loaded" /\ xFault = "none"
    /\ FirstHref(xPage) = "https://www.google.com/url?q=https%3A%2F%2Fb.org%2F%3Fa%26b&sa=U"
    /\ xRet[1].website = "https://b.org/?a&b"

(***************************************************************************)
(* Claims about the CSV export                                             *)
(***************************************************************************)
\* a CSV text read by the standard rules (RFC 4180): records end at a line
\* feed, fields at a comma; a field that opens with a double quote runs to
\* its closing quote, two quotes in a row inside it standing for one.  mode is
\* "start" (at the start of a field), "plain", "quoted" or "closed" (after the
\* closing quote); field and row are what has been read of the current field
\* and record
RECURSIVE CsvRead(_, _, _, _)
CsvRead(s, mode, field, row) ==
    IF s = <<>> THEN <<Append(row, field)>>
    ELSE IF mode = "quoted"
    THEN IF Head(s) # "\"" THEN CsvRead(Tail(s), "quoted", Append(field, Head(s)), row)
         ELSE IF Len(s) >= 2 /\ s[2] = "\""
         THEN CsvRead(Tail(Tail(s)), "quoted", Append(field, "\""), row)
         ELSE CsvRead(Tail(s), "closed", field, row)
    ELSE IF Head(s) = "," THEN CsvRead(Tail(s), "start", <<>>, Append(row, field))
    ELSE IF Head(s) = "\n" THEN <<Append(row, field)>> \o CsvRead(Tail(s), "start", <<>>, <<>>)
    ELSE IF Head(s) = "\"" /\ mode = "start" THEN CsvRead(Tail(s), "quoted", <<>>, row)
    ELSE CsvRead(Tail(s), "plain", Append(field, Head(s)), row)

\* the field values of the exported record, in header order
ValuesOf(item, headers) == [i \in 1..Len(headers) |-> item[headers[i]]]

\* a value in double quotes with its quotes doubled
Quoted(value) ==
    <<"\"">> \o
    Join([i \in 1..Len(value) |-> IF value[i] = "\"" THEN <<"\"", "\"">> ELSE <<value[i]>>],
         <<>>)
    \o <<"\"">>

\* C32: for every record, CSV export wraps each field that contains a comma or
\* a double quote in double quotes with inner quotes doubled, leaves other
\* fields as they are, and parsing the produced row with standard CSV rules
\* returns the original field values in header order
C32_CsvRoundTrip ==
    csvpc = "done" =>
        LET headers == CsvHeaders(csvVariant)
            values == ValuesOf(csvItem, headers)
            rows == CsvRead(csvOut, "start", <<>>, <<>>)
        IN  /\ Len(csvCells) = Len(headers)
            /\ \A i \in 1..Len(headers) :
                   csvCells[i] = IF "," \in Range(values[i]) \/ "\"" \in Range(values[i])
                                 THEN Quoted(values[i]) ELSE values[i]
            /\ Len(rows) = 2
            /\ rows[2] = values

(***************************************************************************)
(* Claims about the end of a session                                       *)
(***************************************************************************)
\* C33: every accepted batch session eventually reaches completed or error,
\* for every feed behaviour and every maxResults (set or absent), provided
\* each individual automation call eventually returns or fails
C33_SessionEnds ==
    \A s \in Sessions : (sess[s].status = "running") ~> Terminal(s)

\* every attempt of the listing-page navigation has failed
ListingNavigationFailed ==
    Len(mGotos) = MAX_RETRIES /\ \A i \in 1..Len(mGotos) : ~mGotos[i]

\* C34: when every one of the MAX_RETRIES attempts to load the listing page
\* fails, search does not raise: it returns the empty list, and when the
\* program has ended the browser main opened has been closed
C34_SearchNeverRaises ==
    ListingNavigationFailed =>
        /\ mSearch # "raised"
        /\ mpc \in {"done", "exited"} =>
               /\ mSearch = "returned"
               /\ mReturned = <<>>
               /\ mBrowser = "closed"

\* what a request handler or a step of another task can see of session s:
\* status completed, outside the synchronous completion section of any task
ObservedCompleted(s) == ~InSync /\ sess[s].status = "completed"

\* the Store has an entry with the website of every record of the results of s
StoreHolds(s) ==
    \A i \in 1..Len(sess[s].results) :
        \E j \in 1..Len(data.places) : data.places[j].website = sess[s].results[i].website

\* C35: at every step that makes status completed of a session visible to an
\* observer, the merge of that session is over and the Store holds an entry
\* for the website of every record of the session's results; and no state an
\* observer sees has a session completed with its merge still to come
C35_CompletedAfterMerge ==
    [][\A s \in Sessions :
          ObservedCompleted(s)' =>
              /\ task'[s].pc \in {"finally", "done"}
              /\ ~ObservedCompleted(s) => StoreHolds(s)']_vars

\* a session with records is seen completed, by a step of its own or after
\* the completion of the other session, while the other session is on its way
C35_Witness ==
    \E s \in Sessions, t \in Sessions :
        /\ s # t
        /\ ObservedCompleted(s)
        /\ Len(sess[s].results) >= 1
        /\ StoreHolds(s)
        /\ sess[t].status = "running"
        /\ task[t].pc = "items"

\* C36: whenever a status request can be served, the resultsCount and the
\* progress it reports for a session are equal, and equal to the number of
\* records the session's task has accepted so far
C36_CountsAgree ==
    \A s \in registered :
        ~InSync =>
            /\ StatusReport(s).resultsCount = StatusReport(s).progress
            /\ StatusReport(s).progress = Len(task[s].allResults)

\* a status request sees two accepted records while the second keyword is
\* being processed
C36_Witness ==
    /\ ~InSync
    /\ "s1" \in registered
    /\ StatusReport("s1").status = "running"
    /\ StatusReport("s1").keywordIndex = 2
    /\ StatusReport("s1").resultsCount = 2
    /\ task["s1"].pc = "items"

\* a step of the background task of session s: the task has been started and
\* its local state moves
TaskStepOf(s) == task[s].pc # "absent" /\ task'[s] # task[s]

\* C37: a step of the background task of one session leaves the session
\* record (status, progress, total, results, error, currentKeyword,
\* keywordIndex) and the task of every other session as they were, and writes
\* nothing outside its own session and task except the Store
C37_SessionsIsolated ==
    [][\A s \in Sessions, t \in Sessions :
          (s # t /\ TaskStepOf(s)) =>
              /\ sess'[t] = sess[t]
              /\ task'[t] = task[t]
              /\ UNCHANGED <<registered, resp>>]_vars

\* both sessions have run to completion with one record each, and both have
\* written the Store
C37_Witness ==
    /\ sess["s1"].status = "completed" /\ sess["s2"].status = "completed"
    /\ Len(sess["s1"].results) = 1 /\ Len(sess["s2"].results) = 1
    /\ sess["s1"].results[1].website # sess["s2"].results[1].website
    /\ task["s1"].pc = "done" /\ task["s2"].pc = "done"
    /\ Len(data.places) = 2

\* C38: with maxResults absent or a natural number, whenever a request can be
\* served the progress of a session lies between 0 and its total, and total
\* equals progress in a completed session
C38_ProgressWithinTotal ==
    \A s \in registered :
        ~InSync =>
            /\ 0 <= sess[s].progress
            /\ sess[s].progress <= sess[s].total
            /\ sess[s].status = "completed" => sess[s].total = sess[s].progress

\* the second keyword is under way after a re-estimation of the total, with
\* records of the first keyword counted in progress
C38_Witness ==
    /\ ~InSync
    /\ sess["s1"].status = "running"
    /\ sess["s1"].keywordIndex = 2
    /\ task["s1"].pc = "items"
    /\ sess["s1"].progress = 2
    /\ sess["s1"].total = 3

\* C39: after every call of addPlace, addPlaces or reset on a store that
\* started empty, totalScraped is the number of entries, and a call of
\* addPlaces that returns has returned the number of entries it added
C39_CounterIsCount ==
    [][/\ data'.totalScraped = Len(data'.places)
       /\ (lastCall'.op = "addPlaces" /\ ~lastCall'.threw) =>
              lastCall'.ret = Len(data'.places) - Len(data.places)]_vars

\* addPlaces was handed two records, skipped one as a duplicate and added the
\* other to a store that held one entry
C39_Witness ==
    /\ lastCall.op = "addPlaces"
    /\ ~lastCall.threw
    /\ Len(lastCall.arg) = 2
    /\ lastCall.ret = 1
    /\ data.totalScraped = 2
    /\ Len(data.places) = 2

====
